---------------------------- MODULE Spec2Model ----------------------------
(***************************************************************************)
(* A model of the fraud-scoring service: the prediction pipeline of        *)
(* app/preprocess.py (validation, feature assembly, scaling),              *)
(* app/inference.py (scoring, risk classification, batch prediction, the   *)
(* get_model accessor), the HTTP handlers of app/api.py and the chat       *)
(* sessions of app/chatbot.py.                                             *)
(*                                                                         *)
(* Numbers.  A probability, a threshold and a confidence are integers in   *)
(* units of 1/Scale (Scale = 10^5), so 0.1 is Scale \div 10.  A feature    *)
(* value is an integer.  A Python float is a record: Fin(n), NaN, PosInf   *)
(* or NegInf; a failed float() is Err("ValueError") or Err("TypeError").   *)
(* None is the empty sequence and a present optional value x is <<x>>.     *)
(***************************************************************************)
EXTENDS Integers, Sequences, FiniteSets, TLC

VARIABLES
    launcher,       \* how the process was started: "main" (python -m app.api),
                    \* "gunicorn" (start.py), "library" (no server)
    phase,          \* "boot" before the server accepts requests, then "serving"
    disk,           \* the artifacts in the model directory: None where a file is absent
    fraud_model,    \* api.py global: "None" or "loaded"
    model,          \* FraudDetectionModel.model: None or <<classifier artifact>>
    scaler,         \* FraudDetectionModel.scaler: None or <<scaler artifact>>
    metrics,        \* FraudDetectionModel.metrics: None or <<metrics dict>>
    preprocessor,   \* the DataPreprocessor in use: [scaler |-> None or <<artifact>>]
    op,             \* the operation that ran last ("idle": none is running)
    arg,            \* the record (or list of records) the caller passed in
    data,           \* the caller's record object (or list of records) after the call
    threshold,      \* the threshold argument of the call, as the caller gave it
    result,         \* what the call returned or raised
    status,         \* HTTP status of the response (0: not an HTTP call)
    transform_log,  \* the vectors handed to scaler.transform during the call
    proba_log,      \* the probabilities predict_proba returned during the call
    prompts,        \* the prompts handed to the LLM during the call
    global_model,   \* inference.py global _global_model: None or <<instance>>
    created,        \* the FraudDetectionModel instances constructed so far
    returned,       \* the instances get_model has returned so far
    callers,        \* per thread: where it is in get_model, and with what
    bot_model,      \* FraudChatbot.model is set (the LLM is available)
    sessions,       \* FraudChatbot.sessions: session_id -> ConversationContext
    now,            \* datetime.now(), in seconds
    added           \* every message passed to add_message of the context, in order

vars == <<launcher, phase, disk, fraud_model, model, scaler, metrics, preprocessor, op, arg, data,
          threshold, result, status, transform_log, proba_log, prompts,
          global_model, created, returned, callers, bot_model, sessions, now, added>>

None == <<>>
Some(x) == <<x>>

-----------------------------------------------------------------------------
(* Python values as they arrive in a decoded JSON body or a caller's dict. *)

Num(n) == [t |-> "num", n |-> n, s |-> ""]
PyBool(b) == [t |-> "bool", n |-> IF b THEN 1 ELSE 0, s |-> ""]
Str(s) == [t |-> "str", n |-> 0, s |-> s]
PyNaN == [t |-> "float", n |-> 0, s |-> "nan"]
PyNone == [t |-> "none", n |-> 0, s |-> ""]

Fin(n) == [k |-> "fin", n |-> n]
NaN == [k |-> "nan", n |-> 0]
PosInf == [k |-> "inf", n |-> 1]
NegInf == [k |-> "inf", n |-> -1]
Err(e) == [k |-> e, n |-> 0]

IsErr(x) == x.k \in {"ValueError", "TypeError"}
IsFinite(x) == x.k = "fin"

\* float("..."): the strings the model's inputs use
ParseFloat(s) ==
    CASE s = "nan" -> NaN
      [] s = "inf" -> PosInf
      [] s = "-inf" -> NegInf
      [] s = "-1" -> Fin(-1)
      [] s = "0" -> Fin(0)
      [] s = "7" -> Fin(7)
      [] OTHER -> Err("ValueError")

\* float(v)
Float(v) ==
    CASE v.t = "num" -> Fin(v.n)
      [] v.t = "bool" -> Fin(v.n)
      [] v.t = "float" -> NaN
      [] v.t = "str" -> ParseFloat(v.s)
      [] OTHER -> Err("TypeError")

\* a < b on floats: every comparison with NaN is False
FloatLt(a, b) ==
    CASE a.k = "nan" \/ b.k = "nan" -> FALSE
      [] a.k = "fin" /\ b.k = "fin" -> a.n < b.n
      [] a.k = "inf" /\ b.k = "fin" -> a.n < 0
      [] a.k = "fin" /\ b.k = "inf" -> b.n > 0
      [] OTHER -> a.n < b.n

\* a > b
FloatGt(a, b) == FloatLt(b, a)

\* a >= b
FloatGe(a, b) == (a.k # "nan" /\ b.k # "nan") /\ ~FloatLt(a, b)

-----------------------------------------------------------------------------
(* app/preprocess.py: DataPreprocessor                                      *)

required_features ==
    << "V1", "V2", "V3", "V4", "V5", "V6", "V7", "V8", "V9", "V10",
       "V11", "V12", "V13", "V14", "V15", "V16", "V17", "V18", "V19", "V20",
       "V21", "V22", "V23", "V24", "V25", "V26", "V27", "V28", "Amount" >>

\* a reordering: Amount assembled before V28
feature_names_reordered ==
    << "Time", "V1", "V2", "V3", "V4", "V5", "V6", "V7", "V8", "V9", "V10",
       "V11", "V12", "V13", "V14", "V15", "V16", "V17", "V18", "V19", "V20",
       "V21", "V22", "V23", "V24", "V25", "V26", "V27", "Amount", "V28" >>

feature_names ==
    << "Time", "V1", "V2", "V3", "V4", "V5", "V6", "V7", "V8", "V9", "V10",
       "V11", "V12", "V13", "V14", "V15", "V16", "V17", "V18", "V19", "V20",
       "V21", "V22", "V23", "V24", "V25", "V26", "V27", "V28", "Amount" >>

AmountCeiling == 100000

\* A record is a function from its keys to Python values.  An object that
\* is not a container (a JSON number as a batch item) is the pseudo-record
\* with the single key "__int__": `f not in data` raises TypeError on it.
IsContainer(d) == "__int__" \notin DOMAIN d

\* a message string: what it says (kind) about which fields, after a prefix
Msg(prefix, kind, fields) == [prefix |-> prefix, kind |-> kind, fields |-> fields]

\* the (valid, message) pair validate_transaction_data returns
Verdict(valid, kind, fields) == [valid |-> valid, msg |-> Msg("", kind, fields)]

\* the outcome of a call: what it raised (None: it returned), the value it
\* returned, the caller's record object after the call, and the vectors it
\* handed to scaler.transform and the probabilities predict_proba gave it
Outcome(raised, value, d, handed, probas) ==
    [raised |-> raised, value |-> value, data |-> d, handed |-> handed,
     probas |-> probas]
Return(value, d, handed, probas) == Outcome(None, value, d, handed, probas)
Raise(msg, d, handed, probas) == Outcome(Some(msg), None, d, handed, probas)
Raised(o) == o.raised # None

\* a report of the first missing feature only
missing_features_first(d) ==
    LET all == SelectSeq(required_features, LAMBDA f : f \notin DOMAIN d)
    IN  IF all = <<>> THEN <<>> ELSE <<all[1]>>

\* missing_features = [f for f in required_features if f not in data]
missing_features(d) == SelectSeq(required_features, LAMBDA f : f \notin DOMAIN d)

\* the last feature that float() refuses
FirstNonNumeric_last(d, i) ==
    LET bad == {j \in i..Len(required_features) : IsErr(Float(d[required_features[j]]))}
    IN  IF bad = {} THEN None
        ELSE Some(required_features[CHOOSE j \in bad : \A k \in bad : k <= j])

\* the first feature, in the order of required_features, that float() refuses
RECURSIVE FirstNonNumeric(_, _)
FirstNonNumeric(d, i) ==
    IF i > Len(required_features) THEN None
    ELSE IF IsErr(Float(d[required_features[i]])) THEN Some(required_features[i])
    ELSE FirstNonNumeric(d, i + 1)

\* amount < 0
AmountNegative(amount) == FloatLt(amount, Fin(0))

\* amount > 100000: logged as a warning only
AmountWarning(amount) == FloatGt(amount, Fin(AmountCeiling))

validate_transaction_data(d) ==
    IF ~IsContainer(d)
    THEN Raise(Msg("", "TypeError", <<>>), d, <<>>, <<>>)
    ELSE IF missing_features(d) # <<>>
    THEN Return(Verdict(FALSE, "missing", missing_features(d)), d, <<>>, <<>>)
    ELSE IF FirstNonNumeric(d, 1) # None
    THEN Return(Verdict(FALSE, "not_number", FirstNonNumeric(d, 1)), d, <<>>, <<>>)
    ELSE IF AmountNegative(Float(d["Amount"]))
    THEN Return(Verdict(FALSE, "negative_amount", <<>>), d, <<>>, <<>>)
    ELSE Return(Verdict(TRUE, "OK", <<>>), d, <<>>, <<>>)

\* data['Time'] = 0 when 'Time' is not in data: the caller's dict is changed
WithDefaultTime(d) ==
    IF "Time" \in DOMAIN d THEN d
    ELSE [k \in DOMAIN d \cup {"Time"} |-> IF k = "Time" THEN Num(0) ELSE d[k]]

\* features = [float(data[f]) for f in feature_names]
Features(d) == [i \in 1..Len(feature_names) |-> Float(d[feature_names[i]])]

\* the first position of the vector where float() raised, 0 when none did
FirstFeatureError(x) ==
    IF \E i \in 1..Len(x) : IsErr(x[i])
    THEN CHOOSE i \in 1..Len(x) : IsErr(x[i]) /\ \A j \in 1..(i - 1) : ~IsErr(x[j])
    ELSE 0

\* scaler.transform: (x - mean) / scale per dimension, in whole units; the
\* fitted scaler lets NaN through and refuses an infinite value
TransformRaises(x) == \E i \in 1..Len(x) : x[i].k = "inf"
transform(sc, x) ==
    [i \in 1..Len(x) |->
        IF x[i].k = "fin" THEN Fin((x[i].n - sc.mean[i]) \div sc.scale[i]) ELSE x[i]]

\* without a scaler the vector is returned as it was assembled
prepare_features_unscaled(pre, d) ==
    LET assemble(d1, x, e) ==
            IF e # 0
            THEN Raise(Msg("", x[e].k, <<feature_names[e]>>), d1, <<>>, <<>>)
            ELSE IF pre.scaler = None
            THEN Return(x, d1, <<>>, <<>>)
            ELSE IF TransformRaises(x)
            THEN Raise(Msg("", "ValueError", <<>>), d1, <<x>>, <<>>)
            ELSE Return(transform(pre.scaler[1], x), d1, <<x>>, <<>>)
        validated(v) ==
            IF Raised(v) THEN v
            ELSE IF ~v.value.valid
            THEN Raise(Msg("validation", v.value.msg.kind, v.value.msg.fields),
                       d, <<>>, <<>>)
            ELSE assemble(WithDefaultTime(d), Features(WithDefaultTime(d)),
                          FirstFeatureError(Features(WithDefaultTime(d))))
    IN  validated(validate_transaction_data(d))

\* an invalid verdict is logged, not raised: the missing key or the value
\* that is no number then raises further on, a negative amount goes through
prepare_features_warn_only(pre, d) ==
    LET assemble(d1, x, e) ==
            IF e # 0
            THEN Raise(Msg("", x[e].k, <<feature_names[e]>>), d1, <<>>, <<>>)
            ELSE IF pre.scaler = None
            THEN Raise(Msg("", "scaler_not_loaded", <<>>), d1, <<>>, <<>>)
            ELSE IF TransformRaises(x)
            THEN Raise(Msg("", "ValueError", <<>>), d1, <<x>>, <<>>)
            ELSE Return(transform(pre.scaler[1], x), d1, <<x>>, <<>>)
        validated(v) ==
            IF Raised(v) THEN v
            ELSE IF ~v.value.valid /\ v.value.msg.kind = "missing"
            THEN Raise(Msg("", "KeyError", v.value.msg.fields), WithDefaultTime(d),
                       <<>>, <<>>)
            ELSE IF ~v.value.valid /\ v.value.msg.kind = "not_number"
            THEN Raise(Msg("", "ValueError", v.value.msg.fields), WithDefaultTime(d),
                       <<>>, <<>>)
            ELSE assemble(WithDefaultTime(d), Features(WithDefaultTime(d)),
                          FirstFeatureError(Features(WithDefaultTime(d))))
    IN  validated(validate_transaction_data(d))

\* the scaled values are written back into the caller's record
prepare_features_in_place(pre, d) ==
    LET written(d1, y) ==
            [k \in DOMAIN d1 |->
                IF \E i \in 1..Len(feature_names) : feature_names[i] = k
                THEN LET i == CHOOSE j \in 1..Len(feature_names) : feature_names[j] = k
                     IN  IF y[i].k = "fin" THEN Num(y[i].n) ELSE d1[k]
                ELSE d1[k]]
        assemble(d1, x, e) ==
            IF e # 0
            THEN Raise(Msg("", x[e].k, <<feature_names[e]>>), d1, <<>>, <<>>)
            ELSE IF pre.scaler = None
            THEN Raise(Msg("", "scaler_not_loaded", <<>>), d1, <<>>, <<>>)
            ELSE IF TransformRaises(x)
            THEN Raise(Msg("", "ValueError", <<>>), d1, <<x>>, <<>>)
            ELSE Return(transform(pre.scaler[1], x),
                        written(d1, transform(pre.scaler[1], x)), <<x>>, <<>>)
        validated(v) ==
            IF Raised(v) THEN v
            ELSE IF ~v.value.valid
            THEN Raise(Msg("validation", v.value.msg.kind, v.value.msg.fields),
                       d, <<>>, <<>>)
            ELSE assemble(WithDefaultTime(d), Features(WithDefaultTime(d)),
                          FirstFeatureError(Features(WithDefaultTime(d))))
    IN  validated(validate_transaction_data(d))

\* the amount is checked only after the vector went through the scaler
prepare_features_late_check(pre, d) ==
    LET assemble(d1, x, e) ==
            IF e # 0
            THEN Raise(Msg("", x[e].k, <<feature_names[e]>>), d1, <<>>, <<>>)
            ELSE IF pre.scaler = None
            THEN Raise(Msg("", "scaler_not_loaded", <<>>), d1, <<>>, <<>>)
            ELSE IF TransformRaises(x)
            THEN Raise(Msg("", "ValueError", <<>>), d1, <<x>>, <<>>)
            ELSE Return(transform(pre.scaler[1], x), d1, <<x>>, <<>>)
        late(v, o) ==
            IF Raised(o) THEN o
            ELSE Raise(Msg("validation", v.value.msg.kind, v.value.msg.fields),
                       o.data, o.handed, <<>>)
        validated(v) ==
            IF Raised(v) THEN v
            ELSE IF ~v.value.valid /\ v.value.msg.kind = "negative_amount"
            THEN late(v, assemble(WithDefaultTime(d), Features(WithDefaultTime(d)),
                                  FirstFeatureError(Features(WithDefaultTime(d)))))
            ELSE IF ~v.value.valid
            THEN Raise(Msg("validation", v.value.msg.kind, v.value.msg.fields),
                       d, <<>>, <<>>)
            ELSE assemble(WithDefaultTime(d), Features(WithDefaultTime(d)),
                          FirstFeatureError(Features(WithDefaultTime(d))))
    IN  validated(validate_transaction_data(d))

prepare_features(pre, d) ==
    LET \* from `features = [...]` on: d1 is the dict with Time, x the vector
        assemble(d1, x, e) ==
            IF e # 0
            THEN Raise(Msg("", x[e].k, <<feature_names[e]>>), d1, <<>>, <<>>)
            ELSE IF pre.scaler = None
            THEN Raise(Msg("", "scaler_not_loaded", <<>>), d1, <<>>, <<>>)
            ELSE IF TransformRaises(x)
            THEN Raise(Msg("", "ValueError", <<>>), d1, <<x>>, <<>>)
            ELSE Return(transform(pre.scaler[1], x), d1, <<x>>, <<>>)
        \* after is_valid, error_msg = self.validate_transaction_data(data)
        validated(v) ==
            IF Raised(v) THEN v
            ELSE IF ~v.value.valid
            THEN Raise(Msg("validation", v.value.msg.kind, v.value.msg.fields),
                       d, <<>>, <<>>)
            ELSE assemble(WithDefaultTime(d), Features(WithDefaultTime(d)),
                          FirstFeatureError(Features(WithDefaultTime(d))))
    IN  validated(validate_transaction_data(d))

-----------------------------------------------------------------------------
(* app/inference.py: FraudDetectionModel                                    *)

\* one unit of probability is 1/Scale
Scale == 10^5

Max(a, b) == IF a >= b THEN a ELSE b
Min(a, b) == IF a <= b THEN a ELSE b

\* the fifth decimal is cut off
Round4_truncate(x) == (x \div 10) * 10

\* round(x, 4) of a probability in units of 1/Scale, still in those units.
\* Python rounds an exact tie by the binary value of the float; the
\* probabilities of this model end in no 5, so no tie arises.
Round4(x) == ((x + 5) \div 10) * 10

RECURSIVE Dot(_, _)
\* the weighted sum of a scaled vector, weight 10*i at position i
Dot(x, i) == IF i > Len(x) THEN 0 ELSE 10 * i * x[i].n + Dot(x, i + 1)

\* model.predict_proba(features)[0, 1]: the classifier is an opaque artifact;
\* here a clipped linear score of the scaled vector.  Whether it accepts a
\* NaN feature is a property of the artifact (nan_ok).
PredictProbaRaises(clf, x) == ~clf.nan_ok /\ \E i \in 1..Len(x) : x[i].k = "nan"
predict_proba(clf, x) ==
    IF \E i \in 1..Len(x) : x[i].k = "nan" THEN clf.bias
    ELSE Max(0, Min(Scale, clf.bias + Dot(x, 1)))

\* the instance the methods run on
Self == [model |-> model, scaler |-> scaler, metrics |-> metrics,
         preprocessor |-> preprocessor]

\* FraudDetectionModel(model_dir): __init__ calls load_model, which raises
\* FileNotFoundError when model.pkl or scaler.pkl is not there, loads
\* metrics.pkl only if it is there, and builds the preprocessor on the
\* scaler file.  dk says what the directory holds.
load_model(dk) ==
    IF dk.model = None
    THEN Raise(Msg("", "FileNotFoundError", <<"model.pkl">>), <<>>, <<>>, <<>>)
    ELSE IF dk.scaler = None
    THEN Raise(Msg("", "FileNotFoundError", <<"scaler.pkl">>), <<>>, <<>>, <<>>)
    ELSE Return([model |-> dk.model, scaler |-> dk.scaler, metrics |-> dk.metrics,
                 preprocessor |-> Some([scaler |-> dk.scaler])], <<>>, <<>>, <<>>)

predict_fraud_probability(self, d) ==
    IF self.model = None
    THEN Raise(Msg("", "model_not_loaded", <<>>), d, <<>>, <<>>)
    ELSE IF self.preprocessor = None
    THEN Raise(Msg("", "AttributeError", <<>>), d, <<>>, <<>>)
    ELSE LET \* after features = self.preprocessor.prepare_features(...)
             score(f) ==
                 IF Raised(f) THEN f
                 ELSE IF PredictProbaRaises(self.model[1], f.value)
                 THEN Raise(Msg("", "ValueError", <<>>), f.data, f.handed, <<>>)
                 ELSE LET p == predict_proba(self.model[1], f.value)
                      IN  Return(p, f.data, f.handed, <<p>>)
         IN  score(prepare_features(self.preprocessor[1], d))

\* probability >= threshold (a float comparison: False against NaN)
Decision(p, t) == FloatGe(Fin(p), t)

\* a strict comparison: a probability equal to the threshold is not fraud
predict_fraud_class_strict(self, d, t) ==
    LET compare(pr) ==
            IF Raised(pr) THEN pr
            ELSE Return(FloatLt(t, Fin(pr.value)), pr.data, pr.handed, pr.probas)
    IN  compare(predict_fraud_probability(self, d))

predict_fraud_class(self, d, t) ==
    LET \* after probability = self.predict_fraud_probability(...)
        compare(pr) ==
            IF Raised(pr) THEN pr
            ELSE Return(FloatGe(Fin(pr.value), t), pr.data, pr.handed, pr.probas)
    IN  compare(predict_fraud_probability(self, d))

\* the probability itself, whichever class is the likelier
Confidence_raw(p) == p

\* confidence = max(probability, 1 - probability)
Confidence(p) == Max(p, Scale - p)

\* the five risk tiers, lowest first ("Очень низкий" .. "Очень высокий")
RiskLevels == <<"very_low", "low", "medium", "high", "very_high">>

\* bands closed on the right: a probability on a boundary gets the lower tier
RiskLevel_closed(p) ==
    IF p <= Scale \div 10 THEN "very_low"
    ELSE IF p <= (3 * Scale) \div 10 THEN "low"
    ELSE IF p <= (7 * Scale) \div 10 THEN "medium"
    ELSE IF p <= (9 * Scale) \div 10 THEN "high"
    ELSE "very_high"

RiskLevel(p) ==
    IF p < Scale \div 10 THEN "very_low"
    ELSE IF p < (3 * Scale) \div 10 THEN "low"
    ELSE IF p < (7 * Scale) \div 10 THEN "medium"
    ELSE IF p < (9 * Scale) \div 10 THEN "high"
    ELSE "very_high"

\* a tier raised to high when it is below it
AtLeastHigh(level) == IF level \in {"very_low", "low", "medium"} THEN "high" ELSE level

\* `if self.metrics`: None and the empty dict are both false
Truthy(m) == m # None /\ DOMAIN m[1] # {}

\* self.metrics.get(key, "Unknown") if self.metrics else "Unknown"
MetricOrUnknown(m, key) ==
    IF Truthy(m) THEN (IF key \in DOMAIN m[1] THEN m[1][key] ELSE "Unknown")
    ELSE "Unknown"

\* the dict returned when validation fails or an exception is caught
ErrorResult(msg) ==
    [error |-> msg, fraud_score |-> None, is_fraud |-> None, confidence |-> None]

\* self.metrics.get(...) with no test of self.metrics: an AttributeError on
\* None, which the except clause turns into the error dict
DetailResult_unguarded(self, p, t) ==
    IF self.metrics = None
    THEN ErrorResult(Msg("", "AttributeError", <<>>))
    ELSE [fraud_score |-> Some(Round4(p)),
          is_fraud |-> Some(Decision(p, t)),
          confidence |-> Some(Round4(Confidence(p))),
          risk_level |-> RiskLevel(p),
          threshold |-> t,
          model_info |-> [model_name |-> MetricOrUnknown(self.metrics, "model_name"),
                          model_auc |-> MetricOrUnknown(self.metrics, "roc_auc")]]

\* the tier is taken relative to the threshold: high from the threshold on
DetailResult_tier_by_threshold(self, p, t) ==
    [fraud_score |-> Some(Round4(p)),
     is_fraud |-> Some(Decision(p, t)),
     confidence |-> Some(Round4(Confidence(p))),
     risk_level |-> IF Decision(p, t) THEN AtLeastHigh(RiskLevel(p)) ELSE RiskLevel(p),
     threshold |-> t,
     model_info |-> [model_name |-> MetricOrUnknown(self.metrics, "model_name"),
                     model_auc |-> MetricOrUnknown(self.metrics, "roc_auc")]]

DetailResult(self, p, t) ==
    [fraud_score |-> Some(Round4(p)),
     is_fraud |-> Some(Decision(p, t)),
     confidence |-> Some(Round4(Confidence(p))),
     risk_level |-> RiskLevel(p),
     threshold |-> t,
     model_info |-> [model_name |-> MetricOrUnknown(self.metrics, "model_name"),
                     model_auc |-> MetricOrUnknown(self.metrics, "roc_auc")]]

predict_with_details(self, d, t) ==
    IF self.preprocessor = None
    THEN Return(ErrorResult(Msg("", "AttributeError", <<>>)), d, <<>>, <<>>)
    ELSE LET \* after fraud_probability = self.predict_fraud_probability(...);
             \* the except clause turns what was raised into the error dict
             detail(pr) ==
                 IF Raised(pr)
                 THEN Return(ErrorResult(pr.raised[1]), pr.data, pr.handed, pr.probas)
                 ELSE Return(DetailResult(self, pr.value, t), pr.data,
                             pr.handed, pr.probas)
             \* after is_valid, error_msg = ...validate_transaction_data(...)
             validated(v) ==
                 IF Raised(v)
                 THEN Return(ErrorResult(v.raised[1]), d, <<>>, <<>>)
                 ELSE IF ~v.value.valid
                 THEN Return(ErrorResult(v.value.msg), d, <<>>, <<>>)
                 ELSE detail(predict_fraud_probability(self, d))
         IN  validated(validate_transaction_data(d))

\* result[key] = value on a dict
SetKey(r, key, value) ==
    [k \in DOMAIN r \cup {key} |-> IF k = key THEN value ELSE r[k]]

RECURSIVE Flatten(_, _, _)
\* the concatenation of seqs[lo], .., seqs[hi], by halves
Flatten(seqs, lo, hi) ==
    IF lo > hi THEN <<>>
    ELSE IF lo = hi THEN seqs[lo]
    ELSE Flatten(seqs, lo, (lo + hi) \div 2) \o Flatten(seqs, (lo + hi) \div 2 + 1, hi)

\* results tagged from 1
batch_results_from1(each) ==
    [i \in 1..Len(each) |-> SetKey(each[i].value, "transaction_id", i)]

\* for i, transaction in enumerate(transactions): result = ...;
\* result['transaction_id'] = i; results.append(result).  each[i] is the
\* outcome of predict_with_details on item i (the first item has i = 0 in
\* the code and position 1 here)
batch_results(each) ==
    [i \in 1..Len(each) |-> SetKey(each[i].value, "transaction_id", i - 1)]

\* the outcome of the loop: the results list, the list of items as the calls
\* left them, and the logs of the calls in the order of the items
batch_outcome(each) ==
    Return(batch_results(each),
           [i \in 1..Len(each) |-> each[i].data],
           Flatten([i \in 1..Len(each) |-> each[i].handed], 1, Len(each)),
           Flatten([i \in 1..Len(each) |-> each[i].probas], 1, Len(each)))

\* a batch that stops at its first failing item
batch_predict_abort(self, transactions, t) ==
    LET cut(full, bad) ==
            IF bad = {} THEN full
            ELSE [full EXCEPT !.value =
                     SubSeq(full.value, 1, CHOOSE i \in bad : \A j \in bad : i <= j)]
        stop(full) ==
            cut(full, {i \in 1..Len(full.value) : "error" \in DOMAIN full.value[i]})
    IN  stop(batch_outcome([i \in 1..Len(transactions) |->
                               predict_with_details(self, transactions[i], t)]))

\* the items are scored one by one, each by predict_with_details; the except
\* clause of the loop never runs: predict_with_details catches every
\* exception itself
batch_predict(self, transactions, t) ==
    batch_outcome([i \in 1..Len(transactions) |->
                      predict_with_details(self, transactions[i], t)])

\* get_model_info: a new dict each call (model_dir left out); the metrics
\* artifacts of this model carry no feature_names, so feature_count is 0
get_model_info(self) ==
    LET info == [k \in {"model_loaded", "scaler_loaded"} |->
                    IF k = "model_loaded" THEN PyBool(self.model # None)
                    ELSE PyBool(self.scaler # None)]
    IN  IF Truthy(self.metrics)
        THEN SetKey(SetKey(SetKey(info,
                 "model_name", Str(MetricOrUnknown(self.metrics, "model_name"))),
                 "model_auc", Str(MetricOrUnknown(self.metrics, "roc_auc"))),
                 "feature_count", Num(0))
        ELSE info

\* predict_fraud of app/inference.py: get_model().predict_with_details; the
\* global instance is the one fraud_model refers to
predict_fraud(self, d, t) == predict_with_details(self, d, t)

\* the dict validate_and_predict returns for a record it does not score
InvalidResult(msg) ==
    [valid |-> FALSE, error |-> msg, fraud_score |-> None, is_fraud |-> None]

validate_and_predict(self, d, t) ==
    LET \* result = predict_fraud(...); result["valid"] = True
        mark(r) == Return(SetKey(r.value, "valid", TRUE), r.data, r.handed, r.probas)
        \* after is_valid, error_msg = preprocessor.validate_transaction_data(...);
        \* the except clause answers what was raised the same way
        validated(v) ==
            IF Raised(v) THEN Return(InvalidResult(v.raised[1]), d, <<>>, <<>>)
            ELSE IF ~v.value.valid THEN Return(InvalidResult(v.value.msg), d, <<>>, <<>>)
            ELSE mark(predict_fraud(self, d, t))
    IN  validated(validate_transaction_data(d))

-----------------------------------------------------------------------------
(* The inputs of the model.                                                 *)

\* at most this many keys of a record differ from the all-zero record
MaxEdits == 2

RequiredKeys == {required_features[i] : i \in 1..Len(required_features)}

\* V1..V28 = 0, Amount = 0, no Time
BaseRecord == [k \in RequiredKeys |-> Num(0)]

\* the keys a generated record may differ in: the optional key, the first,
\* second and last anonymized feature, the amount, and a key of no meaning
EditKeys == {"Time", "V1", "V2", "V28", "Amount", "Class"}

Absent == [t |-> "absent", n |-> 0, s |-> ""]

FieldValues ==
    {Num(-1), Num(0), Num(3), Num(AmountCeiling), Num(AmountCeiling + 1),
     PyBool(TRUE), Str("7"), Str("nan"), Str("-inf"), Str("abc"), PyNone}

Patches ==
    UNION {[K -> FieldValues \cup {Absent}] :
              K \in {S \in SUBSET EditKeys : Cardinality(S) <= MaxEdits}}

Patched(d, patch) ==
    [k \in {j \in DOMAIN d \cup DOMAIN patch :
               IF j \in DOMAIN patch THEN patch[j] # Absent ELSE TRUE} |->
        IF k \in DOMAIN patch THEN patch[k] ELSE d[k]]

Records == {Patched(BaseRecord, patch) : patch \in Patches}

\* the fitted scaler: mean 0 and scale 1, but for Time (mean 1) and Amount
\* (scale 2)
ScalerArtifact ==
    [mean |-> [i \in 1..Len(feature_names) |-> IF i = 1 THEN 1 ELSE 0],
     scale |-> [i \in 1..Len(feature_names) |->
                   IF i = Len(feature_names) THEN 2 ELSE 1]]

-----------------------------------------------------------------------------
(* Calls.  A call runs when none is running (op = "idle"), draws its        *)
(* arguments and leaves its outcome in the call variables; Finish ends it.  *)

\* a model directory with no files
NoDisk == [model |-> None, scaler |-> None, metrics |-> None]

service == <<launcher, phase, disk, fraud_model, model, scaler, metrics, preprocessor>>
call == <<op, arg, data, threshold, result, status, transform_log, proba_log, prompts>>
accessor == <<global_model, created, returned, callers>>
chatbot == <<bot_model, sessions, now, added>>

\* the number of threads that call get_model
MaxThreads == 2
Threads == 1..MaxThreads

\* no thread is in get_model and none has been
AccessorUnused ==
    /\ global_model = None
    /\ created = {}
    /\ returned = {}
    /\ callers = [t \in Threads |-> [pc |-> "idle", model_dir |-> "", made |-> None]]

\* the chatbot module is not in use
ChatbotUnused ==
    /\ bot_model = FALSE
    /\ sessions = <<>>
    /\ now = 0
    /\ added = <<>>

Idle ==
    /\ op = "idle"
    /\ arg = None
    /\ data = None
    /\ threshold = None
    /\ result = None
    /\ status = 0
    /\ transform_log = <<>>
    /\ proba_log = <<>>
    /\ prompts = <<>>

\* the call variables after operation name ran on argument a (threshold t)
\* with outcome o, answered with HTTP status st
Called(name, a, t, o, st) ==
    /\ op' = name
    /\ arg' = a
    /\ data' = o.data
    /\ threshold' = t
    /\ result' = [raised |-> o.raised, value |-> o.value]
    /\ status' = st
    /\ transform_log' = o.handed
    /\ proba_log' = o.probas
    /\ prompts' = <<>>

Finish ==
    /\ op # "idle"
    /\ op' = "idle"
    /\ arg' = None
    /\ data' = None
    /\ threshold' = None
    /\ result' = None
    /\ status' = 0
    /\ transform_log' = <<>>
    /\ proba_log' = <<>>
    /\ prompts' = <<>>
    /\ UNCHANGED <<service, accessor, chatbot>>

\* preprocessor.validate_transaction_data(d)
ValidateCall ==
    /\ op = "idle"
    /\ \E d \in Records :
          Called("validate_transaction_data", d, None,
                 validate_transaction_data(d), 0)
    /\ UNCHANGED <<service, accessor, chatbot>>

\* preprocessor.prepare_features(d)
PrepareCall ==
    /\ op = "idle"
    /\ \E d \in Records :
          Called("prepare_features", d, None,
                 prepare_features(preprocessor[1], d), 0)
    /\ UNCHANGED <<service, accessor, chatbot>>

\* a DataPreprocessor on its own: DataPreprocessor() has no scaler,
\* DataPreprocessor(scaler_path) has the fitted one
InitPre ==
    /\ launcher = "library"
    /\ phase = "library"
    /\ disk = NoDisk
    /\ fraud_model = "None"
    /\ model = None
    /\ scaler = None
    /\ metrics = None
    /\ preprocessor \in {Some([scaler |-> None]), Some([scaler |-> Some(ScalerArtifact)])}
    /\ Idle
    /\ AccessorUnused
    /\ ChatbotUnused

-----------------------------------------------------------------------------
(* A loaded FraudDetectionModel and calls of its methods.                   *)

\* a batch of the model-level calls has at most this many items
MaxBatch == 2

Tenth == Scale \div 10

\* probabilities on and next to the tier boundaries and the ends of [0, 1],
\* and two that round to 0.5 from either side
PGrid ==
    {0, 1, Scale \div 2 - 4, Scale \div 2, Scale \div 2 + 1, Scale - 1, Scale}
    \cup UNION {{b - 1, b, b + 1} : b \in {Tenth, 3 * Tenth, 7 * Tenth, 9 * Tenth}}

\* the classifiers: one per grid probability (the all-zero record without
\* Time scales to -1 at position 1, so it scores bias - 10), none accepting
\* NaN, and one that does
Classifiers ==
    [bias : {g + 10 : g \in PGrid}, nan_ok : {FALSE}]
    \cup {[bias |-> Scale \div 2 + 10, nan_ok |-> TRUE]}

\* the metrics artifact: absent, complete, lacking the AUC, or empty
FullMetrics ==
    [k \in {"model_name", "roc_auc"} |->
        IF k = "model_name" THEN "RandomForest" ELSE "0.98"]
MetricsChoices ==
    {None, Some(FullMetrics),
     Some([k \in {"model_name"} |-> "RandomForest"]), Some(<<>>)}

\* thresholds in [0, 1] passed to the methods
Thresholds == {Fin(t) : t \in {0, Tenth, Scale \div 2, Scale \div 2 + 1, Scale}}

\* an object that is no container
NotAContainer == [k \in {"__int__"} |-> Num(5)]

With(d, k, v) == Patched(d, [j \in {k} |-> v])

\* the records of the model-level calls
ModelRecords ==
    {BaseRecord,
     With(BaseRecord, "Time", Num(3)),
     With(BaseRecord, "V1", Num(-1)),
     With(BaseRecord, "V2", Num(3)),
     With(BaseRecord, "Class", Num(3)),
     With(BaseRecord, "Amount", Num(AmountCeiling + 1)),
     With(BaseRecord, "Amount", Num(-1)),
     With(BaseRecord, "V1", Absent),
     With(BaseRecord, "V2", Str("abc")),
     With(BaseRecord, "Amount", Str("nan")),
     With(BaseRecord, "V28", Str("-inf")),
     With(BaseRecord, "Time", Str("abc"))}

\* the items of a batch: a valid record, one with a missing field, one with
\* a value that is no number, one with a negative amount, one the scorer
\* fails on, and one that is no mapping
BatchItems ==
    {BaseRecord,
     With(BaseRecord, "V1", Absent),
     With(BaseRecord, "V2", Str("abc")),
     With(BaseRecord, "Amount", Num(-1)),
     With(BaseRecord, "Amount", Str("nan")),
     NotAContainer}

Batches == UNION {[1..n -> BatchItems] : n \in 0..MaxBatch}

\* model.predict_with_details(d, t)
PredictWithDetailsCall ==
    /\ op = "idle"
    /\ \E d \in ModelRecords \cup {NotAContainer}, t \in Thresholds :
          Called("predict_with_details", d, Some(t),
                 predict_with_details(Self, d, t), 0)
    /\ UNCHANGED <<service, accessor, chatbot>>

\* model.predict_fraud_class(d, t)
PredictFraudClassCall ==
    /\ op = "idle"
    /\ \E d \in ModelRecords, t \in Thresholds :
          Called("predict_fraud_class", d, Some(t),
                 predict_fraud_class(Self, d, t), 0)
    /\ UNCHANGED <<service, accessor, chatbot>>

\* model.predict_fraud_probability(d)
PredictFraudProbabilityCall ==
    /\ op = "idle"
    /\ \E d \in ModelRecords :
          Called("predict_fraud_probability", d, None,
                 predict_fraud_probability(Self, d), 0)
    /\ UNCHANGED <<service, accessor, chatbot>>

\* model.batch_predict(transactions, t)
BatchPredictCall ==
    /\ op = "idle"
    /\ \E b \in Batches, t \in Thresholds :
          Called("batch_predict", b, Some(t), batch_predict(Self, b, t), 0)
    /\ UNCHANGED <<service, accessor, chatbot>>

\* model.preprocessor.prepare_features(d)
ModelPrepareCall ==
    /\ op = "idle"
    /\ \E d \in ModelRecords \cup {NotAContainer} :
          Called("prepare_features", d, None,
                 prepare_features(preprocessor[1], d), 0)
    /\ UNCHANGED <<service, accessor, chatbot>>

\* validate_and_predict(d, t), this model being the global instance
ValidateAndPredictCall ==
    /\ op = "idle"
    /\ \E d \in ModelRecords \cup {NotAContainer}, t \in Thresholds :
          Called("validate_and_predict", d, Some(t),
                 validate_and_predict(Self, d, t), 0)
    /\ UNCHANGED <<service, accessor, chatbot>>

\* FraudDetectionModel(model_dir) after a load_model that succeeded
Loaded(clf, m) ==
    /\ model = Some(clf)
    /\ scaler = Some(ScalerArtifact)
    /\ metrics = m
    /\ preprocessor = Some([scaler |-> Some(ScalerArtifact)])

InitModel ==
    /\ launcher = "library"
    /\ phase = "library"
    /\ disk = NoDisk
    /\ fraud_model = "None"
    /\ \E clf \in Classifiers, m \in MetricsChoices : Loaded(clf, m)
    /\ Idle
    /\ AccessorUnused
    /\ ChatbotUnused

NextModel ==
    \/ PredictWithDetailsCall
    \/ PredictFraudClassCall
    \/ PredictFraudProbabilityCall
    \/ BatchPredictCall
    \/ ModelPrepareCall
    \/ ValidateAndPredictCall
    \/ Finish

SpecModel == InitModel /\ [][NextModel]_vars

-----------------------------------------------------------------------------
(* app/api.py: the process and its HTTP handlers.                           *)

\* at most this many transactions in one /predict/batch request
BatchCap == 100

\* the default threshold, 0.5
DefaultThreshold == Num(Scale \div 2)

\* a threshold above 1 passes
ThresholdVerdict_no_upper(v) ==
    IF IsErr(Float(v)) THEN "threshold_not_number"
    ELSE IF ~FloatGe(Float(v), Fin(0)) THEN "threshold_range"
    ELSE "ok"

\* threshold = float(threshold); if not 0 <= threshold <= 1: 400
ThresholdVerdict(v) ==
    IF IsErr(Float(v)) THEN "threshold_not_number"
    ELSE IF ~(FloatGe(Float(v), Fin(0)) /\ FloatGe(Fin(Scale), Float(v)))
    THEN "threshold_range"
    ELSE "ok"

\* one transaction more passes
TooLarge_off_by_one(transactions) == Len(transactions) > BatchCap + 1

\* len(transactions) > 100
TooLarge(transactions) == Len(transactions) > BatchCap

\* `not data`: the empty dict
Falsy(d) == DOMAIN d = {}

\* data.get(key, default)
Get(d, key, default) == IF key \in DOMAIN d THEN d[key] ELSE default

\* result.get(key) where the value may be None
GetOpt(r, key) == IF key \in DOMAIN r THEN r[key] ELSE None

\* the dict without a key
Without(d, key) == [k \in DOMAIN d \ {key} |-> d[k]]

\* a response: status, JSON body (the timestamp left out), and what the
\* handler did to the request's record and asked of scaler and classifier
Response(st, body, d, handed, probas) ==
    [status |-> st, body |-> body, data |-> d, handed |-> handed, probas |-> probas]

\* the error body of /predict
PredictError(msg) == [error |-> msg, fraud_score |-> None, is_fraud |-> None]

\* the success body of /predict
PredictBody(r, t) ==
    LET body == [fraud_score |-> GetOpt(r, "fraud_score"),
                 is_fraud |-> GetOpt(r, "is_fraud"),
                 confidence |-> GetOpt(r, "confidence"),
                 risk_level |-> IF "risk_level" \in DOMAIN r
                                THEN Some(r["risk_level"]) ELSE None,
                 threshold |-> t]
    IN  IF "model_info" \in DOMAIN r
        THEN SetKey(body, "model_info", r["model_info"])
        ELSE body

\* the check is left out
NotLoaded_unchecked == FALSE

\* `if fraud_model is None`, the first statement of each handler but /health
NotLoaded == fraud_model = "None"

\* POST /predict; req.body is the decoded JSON
api_predict_fraud(self, req) ==
    LET d == req.body
        thr == Get(d, "threshold", DefaultThreshold)
        d1 == Without(d, "threshold")
    IN  IF NotLoaded
        THEN Response(503, PredictError(Msg("", "model_not_loaded", <<>>)), d, <<>>, <<>>)
        ELSE IF ~req.is_json
        THEN Response(400, PredictError(Msg("", "json_expected", <<>>)), d, <<>>, <<>>)
        ELSE IF Falsy(d)
        THEN Response(400, PredictError(Msg("", "empty_body", <<>>)), d, <<>>, <<>>)
        ELSE IF ~IsContainer(d)
        THEN Response(500, PredictError(Msg("internal", "AttributeError", <<>>)),
                      d, <<>>, <<>>)
        ELSE IF ThresholdVerdict(thr) # "ok"
        THEN Response(400, PredictError(Msg("", ThresholdVerdict(thr), <<>>)),
                      d1, <<>>, <<>>)
        ELSE LET \* after result = validate_and_predict(data, threshold)
                 respond(r) ==
                     IF ~r.value.valid
                     THEN Response(400, PredictError(r.value.error), r.data,
                                   r.handed, r.probas)
                     ELSE Response(200, PredictBody(r.value, Float(thr)), r.data,
                                   r.handed, r.probas)
             IN  respond(validate_and_predict(self, d1, Float(thr)))

\* POST /predict/batch
api_predict_batch(self, req) ==
    LET d == req.body
        thr == Get(d, "threshold", DefaultThreshold)
    IN  IF NotLoaded
        THEN Response(503, [error |-> Msg("", "model_not_loaded", <<>>)], d, <<>>, <<>>)
        ELSE IF ~req.is_json
        THEN Response(400, [error |-> Msg("", "json_expected", <<>>)], d, <<>>, <<>>)
        ELSE IF Falsy(d)
        THEN Response(400, [error |-> Msg("", "transactions_expected", <<>>)], d, <<>>, <<>>)
        ELSE IF ~IsContainer(d)
        THEN Response(500, [error |-> Msg("", "TypeError", <<>>)], d, <<>>, <<>>)
        ELSE IF "transactions" \notin DOMAIN d
        THEN Response(400, [error |-> Msg("", "transactions_expected", <<>>)], d, <<>>, <<>>)
        ELSE IF ThresholdVerdict(thr) # "ok"
        THEN Response(400, [error |-> Msg("", ThresholdVerdict(thr), <<>>)], d, <<>>, <<>>)
        ELSE IF TooLarge(d["transactions"])
        THEN Response(400, [error |-> Msg("", "batch_too_large", <<>>)], d, <<>>, <<>>)
        ELSE LET \* after results = fraud_model.batch_predict(...)
                 respond(r) ==
                     Response(200,
                              [results |-> r.value,
                               total_transactions |-> Len(d["transactions"]),
                               threshold |-> Float(thr)],
                              [d EXCEPT !["transactions"] = r.data], r.handed, r.probas)
             IN  respond(batch_predict(self, d["transactions"], Float(thr)))

\* POST /explain; the explanation text of the language model is left out
api_explain_fraud(self, req) ==
    LET payload == req.body
        nested == IsContainer(payload) /\ "transaction" \in DOMAIN payload
        transaction == IF nested THEN payload["transaction"] ELSE payload
        thr == Get(payload, "threshold", DefaultThreshold)
    IN  IF NotLoaded
        THEN Response(503, [error |-> Msg("", "model_not_loaded", <<>>)], payload, <<>>, <<>>)
        ELSE IF ~req.is_json
        THEN Response(400, [error |-> Msg("", "json_expected", <<>>)], payload, <<>>, <<>>)
        ELSE IF ~IsContainer(payload)
        THEN Response(500, [error |-> Msg("internal", "AttributeError", <<>>)],
                      payload, <<>>, <<>>)
        ELSE IF ThresholdVerdict(thr) # "ok"
        THEN Response(400, [error |-> Msg("", ThresholdVerdict(thr), <<>>)],
                      payload, <<>>, <<>>)
        ELSE LET \* the payload as the call left it
                 after(left) == IF nested THEN [payload EXCEPT !["transaction"] = left]
                                ELSE left
                 \* after result = fraud_model.predict_with_details(...)
                 respond(r) ==
                     IF "error" \in DOMAIN r.value
                     THEN Response(400, [error |-> r.value.error], after(r.data),
                                   r.handed, r.probas)
                     ELSE Response(200,
                                   [fraud_score |-> r.value.fraud_score,
                                    is_fraud |-> r.value.is_fraud,
                                    confidence |-> r.value.confidence,
                                    risk_level |-> Some(r.value.risk_level),
                                    threshold |-> r.value.threshold,
                                    model_info |-> r.value.model_info],
                                   after(r.data), r.handed, r.probas)
             IN  respond(predict_with_details(self, transaction, Float(thr)))

\* 200 whatever the state of the model
HealthStatus_always_200(model_status) == 200

\* status_code = 200 if model_status else 503
HealthStatus(model_status) == IF model_status THEN 200 ELSE 503

\* GET /health (timestamp and version left out)
api_health_check(self, req) ==
    Response(HealthStatus(fraud_model # "None"),
             [status |-> IF fraud_model # "None" THEN "ok" ELSE "error",
              model_loaded |-> fraud_model # "None",
              model_info |-> IF fraud_model # "None" THEN get_model_info(self)
                             ELSE <<>>],
             req.body, <<>>, <<>>)

\* the handler writes the timestamp into the dict it got from the model
MetricsAfterInfo_shared(self) ==
    IF Truthy(self.metrics)
    THEN Some(SetKey(self.metrics[1], "timestamp", "now"))
    ELSE self.metrics

\* self.metrics after GET /model-info: info["timestamp"] = ... is written
\* into the new dict get_model_info built, not into self.metrics
MetricsAfterInfo(self) == self.metrics

\* GET /model-info (timestamp left out)
api_get_model_info(self, req) ==
    IF NotLoaded
    THEN Response(503, [error |-> Msg("", "model_not_loaded", <<>>)], req.body, <<>>, <<>>)
    ELSE Response(200, get_model_info(self), req.body, <<>>, <<>>)

-----------------------------------------------------------------------------
(* The service: start of the process, then requests.                        *)

\* the classifiers a model directory may hold
SvcClassifiers == {[bias |-> Scale \div 2 + 10, nan_ok |-> b] : b \in BOOLEAN}

Disks ==
    [model : {None} \cup {Some(c) : c \in SvcClassifiers},
     scaler : {None, Some(ScalerArtifact)},
     metrics : {None, Some(FullMetrics)}]

\* FraudDetectionModel(model_dir).predict_with_details(d, t) by a caller of
\* the library: the instance exists only if the load succeeded
ConstructAndPredictCall ==
    /\ op = "idle"
    /\ \E dk \in Disks, d \in {BaseRecord, With(BaseRecord, "Amount", Num(-1))} :
          Called("FraudDetectionModel", [disk |-> dk, record |-> d],
                 Some(Fin(Scale \div 2)),
                 IF Raised(load_model(dk))
                 THEN Raise(load_model(dk).raised[1], d, <<>>, <<>>)
                 ELSE predict_with_details(load_model(dk).value, d, Fin(Scale \div 2)),
                 0)
    /\ UNCHANGED <<service, accessor, chatbot>>

NextPre == ValidateCall \/ PrepareCall \/ ConstructAndPredictCall \/ Finish

SpecPre == InitPre /\ [][NextPre]_vars

\* the records of the requests: valid (without and with Time), a negative
\* amount, a missing feature, an amount the scorer fails on, a Time that is
\* no number
SvcRecords ==
    {BaseRecord,
     With(BaseRecord, "Time", Num(3)),
     With(BaseRecord, "Amount", Num(-1)),
     With(BaseRecord, "V1", Absent),
     With(BaseRecord, "Amount", Str("nan")),
     With(BaseRecord, "Time", Str("abc"))}

\* the thresholds of the requests; Absent: the request gives none
ThresholdInputs ==
    {Absent, Num(0), Num(Scale \div 2), Num(Scale), Num(0 - Tenth), Num(Scale + Tenth),
     Str("abc"), Str("inf"), PyNone, PyNaN}

EmptyDict == <<>>

Request(is_json, body) == [is_json |-> is_json, body |-> body]

\* bodies with the record at the top level, beside the threshold
FlatBodies ==
    {With(d, "threshold", v) : d \in SvcRecords \cup {EmptyDict}, v \in ThresholdInputs}

\* bodies {"transaction": d, "threshold": v}
NestedBodies ==
    {[k \in {"transaction"} \cup (IF v = Absent THEN {} ELSE {"threshold"}) |->
         IF k = "transaction" THEN d ELSE v] : d \in SvcRecords, v \in ThresholdInputs}

\* n items, all the valid record but item j (none when j = 0)
OneOdd(n, j, it) == [i \in 1..n |-> IF i = j THEN it ELSE BaseRecord]

SvcBatchSizes == {0, 1, 2, BatchCap - 1, BatchCap, BatchCap + 1}

SvcBatches ==
    {OneOdd(n, j, it) :
        n \in SvcBatchSizes, j \in {0, 1, BatchCap, BatchCap + 1},
        it \in {With(BaseRecord, "V1", Absent), NotAContainer}}

\* bodies {"transactions": b, "threshold": v}, and one without transactions
BatchBodies ==
    {[k \in {"transactions"} \cup (IF v = Absent THEN {} ELSE {"threshold"}) |->
         IF k = "transactions" THEN b ELSE v] : b \in SvcBatches, v \in ThresholdInputs}
    \cup {[k \in {"threshold"} |-> Num(Scale + Tenth)]}

\* the requests that are no JSON object: no JSON at all, and a JSON number
OddRequests == {Request(FALSE, EmptyDict), Request(TRUE, NotAContainer)}

\* the threshold a request gives: None when it gives none
GivenThreshold(req) ==
    IF IsContainer(req.body) /\ "threshold" \in DOMAIN req.body
    THEN Some(req.body["threshold"]) ELSE None

Answered(name, req, resp) ==
    Called(name, req, GivenThreshold(req),
           Return(resp.body, resp.data, resp.handed, resp.probas), resp.status)

\* FraudDetectionModel(model_dir).load_model() finds model and scaler
CanLoad == disk.model # None /\ disk.scaler # None

\* the process starts.  Run as the main module, app/api.py calls
\* initialize_model() before app.run(); under gunicorn (start.py) the module
\* is imported and initialize_model() is not called.
Startup ==
    /\ phase = "boot"
    /\ phase' = "serving"
    /\ IF launcher = "main" /\ CanLoad
       THEN /\ fraud_model' = "loaded"
            /\ model' = disk.model
            /\ scaler' = disk.scaler
            /\ metrics' = disk.metrics
            /\ preprocessor' = Some([scaler |-> disk.scaler])
       ELSE UNCHANGED <<fraud_model, model, scaler, metrics, preprocessor>>
    /\ UNCHANGED <<launcher, disk>>
    /\ UNCHANGED <<call, accessor, chatbot>>

PredictRequest ==
    /\ phase = "serving"
    /\ op = "idle"
    /\ \E req \in {Request(TRUE, b) : b \in FlatBodies} \cup OddRequests :
          Answered("/predict", req, api_predict_fraud(Self, req))
    /\ UNCHANGED <<service, accessor, chatbot>>

BatchRequest ==
    /\ phase = "serving"
    /\ op = "idle"
    /\ \E req \in {Request(TRUE, b) : b \in BatchBodies} \cup OddRequests :
          Answered("/predict/batch", req, api_predict_batch(Self, req))
    /\ UNCHANGED <<service, accessor, chatbot>>

ExplainRequest ==
    /\ phase = "serving"
    /\ op = "idle"
    /\ \E req \in {Request(TRUE, b) : b \in FlatBodies \cup NestedBodies} \cup OddRequests :
          Answered("/explain", req, api_explain_fraud(Self, req))
    /\ UNCHANGED <<service, accessor, chatbot>>

\* a GET request: no body
GetRequest == Request(FALSE, <<>>)

HealthRequest ==
    /\ phase = "serving"
    /\ op = "idle"
    /\ Answered("/health", GetRequest, api_health_check(Self, GetRequest))
    /\ UNCHANGED <<service, accessor, chatbot>>

ModelInfoRequest ==
    /\ phase = "serving"
    /\ op = "idle"
    /\ Answered("/model-info", GetRequest, api_get_model_info(Self, GetRequest))
    /\ metrics' = (IF NotLoaded THEN metrics ELSE MetricsAfterInfo(Self))
    /\ UNCHANGED <<launcher, phase, disk, fraud_model, model, scaler, preprocessor>>
    /\ UNCHANGED <<accessor, chatbot>>

Init ==
    /\ launcher \in {"main", "gunicorn"}
    /\ phase = "boot"
    /\ disk \in Disks
    /\ fraud_model = "None"
    /\ model = None
    /\ scaler = None
    /\ metrics = None
    /\ preprocessor = None
    /\ Idle
    /\ AccessorUnused
    /\ ChatbotUnused

Next ==
    \/ Startup
    \/ PredictRequest
    \/ BatchRequest
    \/ ExplainRequest
    \/ HealthRequest
    \/ ModelInfoRequest
    \/ Finish

Spec == Init /\ [][Next]_vars

-----------------------------------------------------------------------------
(* Claims about DataPreprocessor, checked under SpecPre.                    *)

VNames ==
    << "V1", "V2", "V3", "V4", "V5", "V6", "V7", "V8", "V9", "V10",
       "V11", "V12", "V13", "V14", "V15", "V16", "V17", "V18", "V19", "V20",
       "V21", "V22", "V23", "V24", "V25", "V26", "V27", "V28" >>

\* the 29 required keys
Required29 == {VNames[i] : i \in 1..28} \cup {"Amount"}

MissingOf(d) == {k \in Required29 : k \notin DOMAIN d}

AllNumeric(d) == \A k \in Required29 : ~IsErr(Float(d[k]))

\* validation accepts the record
Accepted(d) ==
    LET v == validate_transaction_data(d)
    IN  ~Raised(v) /\ v.value.valid

\* Time, V1..V28, Amount of the record as floats, Time 0 when absent
ExpectedVector(d) ==
    [i \in 1..30 |->
        IF i = 1 THEN (IF "Time" \in DOMAIN d THEN Float(d["Time"]) ELSE Fin(0))
        ELSE IF i = 30 THEN Float(d["Amount"])
        ELSE Float(d[VNames[i - 1]])]

\* C4: for a valid record, every vector prepare_features hands to the scaler
\* has exactly 30 values, Time (0 when absent) first, then V1..V28 in
\* ascending order, then Amount, whatever other keys the record has; with a
\* scaler loaded and a Time that is absent or a number, it hands over
\* exactly one such vector.
C4_FeatureOrder ==
    (op = "prepare_features" /\ Accepted(arg)) =>
        /\ \A i \in 1..Len(transform_log) :
              /\ Len(transform_log[i]) = 30
              /\ transform_log[i] = ExpectedVector(arg)
        /\ (/\ preprocessor[1].scaler # None
            /\ ("Time" \in DOMAIN arg => ~IsErr(Float(arg["Time"]))))
           => Len(transform_log) = 1

\* a record with no Time, a key of no meaning and V28 = 3 was assembled
C4_Witness ==
    /\ op = "prepare_features"
    /\ "Time" \notin DOMAIN arg
    /\ "Class" \in DOMAIN arg
    /\ "V28" \in DOMAIN arg
    /\ arg["V28"] = Num(3)
    /\ Len(transform_log) = 1
    /\ transform_log[1][1] = Fin(0)
    /\ transform_log[1][29] = Fin(3)

\* C5: a record lacking at least one of the 29 required keys is invalid
\* with a message naming exactly the missing keys, whatever its other
\* values are; a record lacking no required key (it may lack Time) gets no
\* such message.
C5_MissingNamed ==
    (op = "validate_transaction_data") =>
        /\ result.raised = None
        /\ MissingOf(arg) # {} =>
              /\ ~result.value.valid
              /\ result.value.msg.kind = "missing"
              /\ {result.value.msg.fields[i] :
                     i \in 1..Len(result.value.msg.fields)} = MissingOf(arg)
              /\ Len(result.value.msg.fields) = Cardinality(MissingOf(arg))
        /\ MissingOf(arg) = {} => result.value.msg.kind # "missing"

\* a key is missing, and the amount is a string that is no number
C5_Witness ==
    /\ op = "validate_transaction_data"
    /\ MissingOf(arg) = {"V28"}
    /\ arg["Amount"] = Str("abc")
    /\ result.value.msg.fields = <<"V28">>

\* C6 (as claimed): a record with all 29 required keys and values float()
\* accepts is accepted if and only if its amount is >= 0.
C6_AcceptedIffNonNegative ==
    (op = "validate_transaction_data" /\ MissingOf(arg) = {} /\ AllNumeric(arg)) =>
        (result.value.valid <=> FloatGe(Float(arg["Amount"]), Fin(0)))

-----------------------------------------------------------------------------
(* Claims about FraudDetectionModel, checked under SpecModel.               *)

\* predict_with_details returned a prediction, not an error
Success ==
    /\ op = "predict_with_details"
    /\ result.raised = None
    /\ "error" \notin DOMAIN result.value

\* the number of the band a probability lies in: 1 + the boundaries at or
\* below it
TierOf(p) ==
    1 + Cardinality({b \in {Tenth, 3 * Tenth, 7 * Tenth, 9 * Tenth} : p >= b})

TierIndex(level) == CHOOSE i \in 1..5 : RiskLevels[i] = level

\* C1: the risk tier of a prediction is the left-inclusive band of its
\* probability: very low below 0.1, low from 0.1, medium from 0.3, high
\* from 0.7, very high from 0.9; so no smaller probability has a higher tier.
C1_RiskBands ==
    Success =>
        /\ Len(proba_log) = 1
        /\ proba_log[1] \in 0..Scale
        /\ result.value.risk_level = RiskLevels[TierOf(proba_log[1])]
        /\ \A q \in PGrid :
              q <= proba_log[1] =>
                  TierIndex(RiskLevel(q)) <= TierIndex(result.value.risk_level)

\* a probability of exactly 0.9 was labelled very high
C1_Witness ==
    /\ Success
    /\ proba_log = <<9 * Tenth>>
    /\ result.value.risk_level = "very_high"

\* C2: the decision of predict_with_details is probability >= threshold,
\* fraud when they are equal, and predict_fraud_class decides the same for
\* the same record and threshold.
C2_Decision ==
    /\ Success =>
          LET t == threshold[1]
              c == predict_fraud_class(Self, arg, t)
          IN  /\ result.value.is_fraud = Some(proba_log[1] >= t.n)
              /\ ~Raised(c)
              /\ Some(c.value) = result.value.is_fraud
    /\ (op = "predict_fraud_class" /\ result.raised = None) =>
          LET t == threshold[1]
              r == predict_with_details(Self, arg, t)
          IN  /\ result.value = (proba_log[1] >= t.n)
              /\ r.value.is_fraud = Some(result.value)

\* a probability equal to the threshold was decided as fraud
C2_Witness ==
    /\ Success
    /\ proba_log[1] = threshold[1].n
    /\ threshold[1].n = Scale \div 2
    /\ result.value.is_fraud = Some(TRUE)

\* C3: the confidence of a prediction is max(p, 1 - p), which lies in
\* [0.5, 1]; the result reports it rounded to 4 decimals, still in [0.5, 1].
C3_Confidence ==
    Success =>
        LET p == proba_log[1]
            c == IF 2 * p >= Scale THEN p ELSE Scale - p
        IN  /\ Confidence(p) = c
            /\ c >= Scale \div 2 /\ c <= Scale
            /\ result.value.confidence = Some(Round4(c))
            /\ Round4(c) >= Scale \div 2 /\ Round4(c) <= Scale

\* a probability of 0.3 was reported with confidence 0.7
C3_Witness ==
    /\ Success
    /\ proba_log = <<3 * Tenth>>
    /\ result.value.confidence = Some(7 * Tenth)

\* evaluating the item alone gives an error result
FailsAlone(it) ==
    "error" \in DOMAIN predict_with_details(Self, it, threshold[1]).value

\* C9: batch_predict returns as many results as it was given items, in
\* input order (result i is an error result exactly when item i fails),
\* and result i carries transaction_id = i, counted from 0.
C9_BatchOrder ==
    (op = "batch_predict") =>
        /\ result.raised = None
        /\ Len(result.value) = Len(arg)
        /\ \A i \in 1..Len(arg) :
              /\ "transaction_id" \in DOMAIN result.value[i]
              /\ result.value[i]["transaction_id"] = i - 1
              /\ ("error" \in DOMAIN result.value[i]) <=> FailsAlone(arg[i])

\* two items, the second one failing: results tagged 0 and 1
C9_Witness ==
    /\ op = "batch_predict"
    /\ Len(arg) = 2
    /\ "error" \notin DOMAIN result.value[1]
    /\ "error" \in DOMAIN result.value[2]
    /\ result.value[2]["transaction_id"] = 1

\* the item cannot be scored: it is no mapping, validation rejects it, or
\* the scorer raises on it
Unscorable(it) ==
    \/ ~IsContainer(it)
    \/ ~Accepted(it)
    \/ Raised(predict_fraud_probability(Self, it))

\* C10: batch_predict never raises; an item that fails gets an error result
\* with no score, and every item's result is, but for its transaction_id,
\* the result of predict_with_details on that item alone with the same
\* threshold.
C10_BatchIsolation ==
    (op = "batch_predict") =>
        /\ result.raised = None
        /\ Len(result.value) = Len(arg)
        /\ \A i \in 1..Len(arg) :
              LET alone == predict_with_details(Self, arg[i], threshold[1]).value
              IN  /\ DOMAIN result.value[i] = DOMAIN alone \cup {"transaction_id"}
                  /\ \A k \in DOMAIN alone : result.value[i][k] = alone[k]
                  /\ Unscorable(arg[i]) =>
                        /\ "error" \in DOMAIN result.value[i]
                        /\ result.value[i]["fraud_score"] = None
                  /\ ~Unscorable(arg[i]) => result.value[i]["fraud_score"] # None

\* the first item is no mapping and the second one was scored
C10_Witness ==
    /\ op = "batch_predict"
    /\ Len(arg) = 2
    /\ arg[1] = NotAContainer
    /\ "error" \in DOMAIN result.value[1]
    /\ "error" \notin DOMAIN result.value[2]
    /\ result.value[2]["fraud_score"] # None

-----------------------------------------------------------------------------
(* Claims about the HTTP handlers, checked under Spec.                      *)

OnPredictionEndpoint == op \in {"/predict", "/predict/batch", "/explain"}

\* the value is a number in [0, 1]
InUnitInterval(v) ==
    /\ Float(v).k = "fin"
    /\ Float(v).n >= 0
    /\ Float(v).n <= Scale

\* the request gives a threshold that is no number in [0, 1]
BadThresholdGiven == threshold # None /\ ~InUnitInterval(threshold[1])

\* the response is an error about the threshold
ThresholdRefused ==
    /\ "error" \in DOMAIN result.value
    /\ result.value.error.kind \in {"threshold_range", "threshold_not_number"}

NothingScored == transform_log = <<>> /\ proba_log = <<>>

\* C7 (as claimed): a request with a threshold outside [0, 1], or one that
\* is no number, is answered 400 and nothing is scaled or scored for it.
C7_BadThreshold400 ==
    (OnPredictionEndpoint /\ BadThresholdGiven) => (status = 400 /\ NothingScored)

\* C7 (amended): such a request is refused before anything is scaled or
\* scored, with 400 when the model is loaded and with 503 when it is not;
\* with the model loaded the 400 is about the threshold (or, on
\* /predict/batch, about the transactions field that is absent).  The
\* thresholds 0 and 1 are not refused, and a request without a threshold is
\* answered with threshold 0.5.
C7_BadThresholdRefused ==
    /\ (OnPredictionEndpoint /\ BadThresholdGiven) =>
          /\ status = (IF fraud_model = "None" THEN 503 ELSE 400)
          /\ NothingScored
          /\ "error" \in DOMAIN result.value
          /\ fraud_model # "None" =>
                \/ ThresholdRefused
                \/ /\ op = "/predict/batch"
                   /\ "transactions" \notin DOMAIN arg.body
                   /\ result.value.error.kind = "transactions_expected"
    /\ (OnPredictionEndpoint /\ ~BadThresholdGiven) =>
          /\ ~ThresholdRefused
          /\ status = 200 =>
                result.value.threshold =
                    (IF threshold = None THEN Fin(Scale \div 2) ELSE Float(threshold[1]))

\* /explain refused a valid record with threshold 1.1 while the model was loaded
C7_Witness ==
    /\ op = "/explain"
    /\ fraud_model = "loaded"
    /\ threshold = Some(Num(Scale + Tenth))
    /\ "transaction" \in DOMAIN arg.body
    /\ arg.body["transaction"] = BaseRecord
    /\ status = 400
    /\ ThresholdRefused

\* a /predict/batch request that has a transactions list
BatchGiven ==
    /\ op = "/predict/batch"
    /\ arg.is_json
    /\ IsContainer(arg.body)
    /\ "transactions" \in DOMAIN arg.body

\* C8: a /predict/batch request with more than 100 transactions is refused
\* as a whole: no item is scored and no result list is returned.  A request
\* with 100 transactions or fewer, none included, is not refused for its
\* size: with the model loaded and a threshold in [0, 1] (or none) it gets
\* one result per transaction.
C8_BatchCap ==
    BatchGiven =>
        LET n == Len(arg.body["transactions"])
        IN  /\ n > 100 =>
                  /\ status \in {400, 503}
                  /\ "results" \notin DOMAIN result.value
                  /\ NothingScored
            /\ n <= 100 =>
                  /\ ~("error" \in DOMAIN result.value
                       /\ result.value.error.kind = "batch_too_large")
                  /\ (fraud_model = "loaded" /\ ~BadThresholdGiven) =>
                        /\ status = 200
                        /\ Len(result.value.results) = n
                        /\ result.value.total_transactions = n

\* 101 transactions were refused for their number
C8_Witness ==
    /\ BatchGiven
    /\ Len(arg.body["transactions"]) = 101
    /\ fraud_model = "loaded"
    /\ ~BadThresholdGiven
    /\ status = 400
    /\ result.value.error.kind = "batch_too_large"

\* C11: while the model is not loaded, a request to /predict, /predict/batch
\* or /explain is answered 503 "model not loaded" whatever else is wrong
\* with it (no JSON, empty body, bad threshold, invalid record); the body is
\* left as it came and nothing is scaled or scored.
C11_NotReadyFirst ==
    (OnPredictionEndpoint /\ fraud_model = "None") =>
        /\ status = 503
        /\ "error" \in DOMAIN result.value
        /\ result.value.error.kind = "model_not_loaded"
        /\ data = arg.body
        /\ NothingScored

\* /predict with a threshold that is no number and a negative amount got
\* 503 while the model was not loaded
C11_Witness ==
    /\ op = "/predict"
    /\ fraud_model = "None"
    /\ threshold = Some(Str("abc"))
    /\ "Amount" \in DOMAIN arg.body
    /\ arg.body["Amount"] = Num(-1)
    /\ status = 503

\* a call on one of the prediction paths
OnPredictionPath ==
    op \in {"validate_and_predict", "predict_with_details",
            "predict_fraud_probability", "prepare_features"}

\* C12: on validate_and_predict, predict_with_details,
\* predict_fraud_probability and prepare_features, a record that validation
\* does not accept (it rejects it, or the argument is no mapping) reaches
\* neither scaler.transform nor model.predict_proba.
C12_ValidationFirst ==
    (OnPredictionPath /\ ~Accepted(arg)) => NothingScored

\* predict_fraud_probability raised on a negative amount, nothing was scaled
C12_Witness ==
    /\ op = "predict_fraud_probability"
    /\ arg = With(BaseRecord, "Amount", Num(-1))
    /\ result.raised # None
    /\ result.raised[1].kind = "negative_amount"
    /\ NothingScored

\* C13 (as claimed): every 200 response of /predict carries a fraud_score
\* and an is_fraud that are not null; a record that validation accepts and
\* the scaler or the classifier then fails on gets an error response.
C13_SuccessHasScore ==
    (op = "/predict" /\ status = 200) =>
        /\ result.value.fraud_score # None
        /\ result.value.is_fraud # None

\* the model directory lacks the model or the scaler and the process was
\* run as the main module: initialize_model() failed
LoadFailed == launcher = "main" /\ ~CanLoad /\ phase = "serving"

\* C14 (as claimed): after a failed load the health check answers HTTP 200
\* with a status that is not "ok".
C14_Health200Unhealthy ==
    (op = "/health" /\ LoadFailed) => (status = 200 /\ result.value.status # "ok")

\* C14 (amended): after a failed load the process serves with no model: the
\* prediction endpoints answer 503, and the health check answers 503 with
\* status "error" and model_loaded false; the health check answers 200
\* "ok" exactly when a model is loaded.
C14_DegradedMode ==
    /\ LoadFailed => fraud_model = "None"
    /\ (phase = "serving" /\ fraud_model = "None") =>
          /\ OnPredictionEndpoint => status = 503
          /\ op = "/health" =>
                /\ status = 503
                /\ result.value.status = "error"
                /\ result.value.model_loaded = FALSE
                /\ result.value.model_info = <<>>
    /\ (op = "/health" /\ fraud_model # "None") =>
          /\ status = 200
          /\ result.value.status = "ok"
          /\ result.value.model_loaded = TRUE

\* the health check answered 503 after a load that failed for lack of a scaler
C14_Witness ==
    /\ op = "/health"
    /\ LoadFailed
    /\ disk.model # None
    /\ disk.scaler = None
    /\ status = 503
    /\ result.value.status = "error"

\* C15 (as claimed): however the process was started, a request handled
\* while model and scaler exist on disk finds the model loaded.
C15_LoadedBeforeFirstRequest ==
    (phase = "serving" /\ op # "idle" /\ CanLoad) => fraud_model = "loaded"

\* the references a request could change
model_state == <<fraud_model, model, scaler, metrics, preprocessor>>

C17_RecordUntouched ==
    (op \in {"prepare_features", "predict_fraud_probability",
             "predict_with_details", "batch_predict"}) => data = arg

\* what predict_with_details returns for the same record and threshold when
\* the metrics artifact is there
WithMetrics ==
    predict_with_details([Self EXCEPT !.metrics = Some(FullMetrics)],
                         arg, threshold[1]).value

\* C18: with no metrics artifact, predict_with_details returns an error
\* exactly when it does with the artifact present; a record that validation
\* accepts and the scorer does not fail on gets a prediction with score,
\* decision, confidence and tier, and its model_name and model_auc both
\* read "Unknown".
C18_MetricsOptional ==
    (op = "predict_with_details" /\ metrics = None) =>
        /\ ("error" \in DOMAIN result.value) <=> ("error" \in DOMAIN WithMetrics)
        /\ (Accepted(arg) /\ ~Raised(predict_fraud_probability(Self, arg))) => Success
        /\ Success =>
              /\ result.value.fraud_score # None
              /\ result.value.is_fraud # None
              /\ result.value.confidence # None
              /\ result.value.risk_level \in {RiskLevels[i] : i \in 1..5}
              /\ result.value.model_info =
                     [model_name |-> "Unknown", model_auc |-> "Unknown"]

\* the all-zero record was scored by a model without metrics
C18_Witness ==
    /\ Success
    /\ metrics = None
    /\ arg = BaseRecord
    /\ result.value.fraud_score # None
    /\ result.value.model_info.model_name = "Unknown"
    /\ result.value.model_info.model_auc = "Unknown"

\* score, confidence and tier of a result (all absent from an error result)
ScorePart(r) ==
    [fraud_score |-> r.fraud_score,
     confidence |-> r.confidence,
     risk_level |-> IF "risk_level" \in DOMAIN r THEN Some(r.risk_level) ELSE None]

\* C19: for every other threshold in [0, 1], predict_with_details returns
\* for the same record the same fraud_score, confidence and risk_level (or
\* an error as well); the threshold shows only in is_fraud, which is
\* probability >= threshold, and in the threshold echoed back.
C19_ThresholdOnlyDecides ==
    (op = "predict_with_details") =>
        \A t2 \in Thresholds :
            LET other == predict_with_details(Self, arg, t2).value
            IN  /\ ScorePart(other) = ScorePart(result.value)
                /\ ("error" \in DOMAIN other) <=> ("error" \in DOMAIN result.value)
                /\ Success =>
                      /\ other.model_info = result.value.model_info
                      /\ other.threshold = t2
                      /\ result.value.threshold = threshold[1]
                      /\ other.is_fraud = Some(proba_log[1] >= t2.n)

\* a score of 0.3 with threshold 0.5: not fraud, though fraud at threshold 0.1
C19_Witness ==
    /\ Success
    /\ proba_log = <<3 * Tenth>>
    /\ threshold = Some(Fin(Scale \div 2))
    /\ result.value.is_fraud = Some(FALSE)
    /\ result.value.risk_level = "medium"
    /\ predict_with_details(Self, arg, Fin(Tenth)).value.is_fraud = Some(TRUE)

\* a second predict_with_details with the same threshold on the record
\* object the first call worked on, as that call left it
SecondCall == predict_with_details(Self, data, threshold[1])

\* C20: predict_with_details called again on the record object it has just
\* processed (Time = 0 written into it when it had none), with the same
\* threshold, returns the result of the first call; and no call changes the
\* scaler, classifier or metrics a later call computes from, so the same
\* holds after any calls in between.
C20_Deterministic ==
    /\ [](op = "predict_with_details" => SecondCall.value = result.value)
    /\ [][Self' = Self]_vars

\* the first call wrote Time = 0 into a record it scored
C20_Witness ==
    /\ Success
    /\ "Time" \notin DOMAIN arg
    /\ "Time" \in DOMAIN data
    /\ data["Time"] = Num(0)
    /\ proba_log = <<Scale \div 2>>
    /\ result.value.fraud_score = Some(Scale \div 2)

\* V1, .., V28, Amount: the order the claim names
ClaimedOrder == VNames \o <<"Amount">>

\* the positions, in that order, of the values float() refuses
Offending(d) == {i \in 1..29 : IsErr(Float(d[ClaimedOrder[i]]))}

\* C21: a record that has all 29 required keys and at least one value that
\* float() refuses is invalid, and the message names one field, the first
\* offending one in the order V1, .., V28, Amount; so it is with a negative
\* amount too, the amount's sign being looked at later.
C21_FirstOffending ==
    (op = "validate_transaction_data" /\ MissingOf(arg) = {} /\ Offending(arg) # {}) =>
        /\ result.raised = None
        /\ ~result.value.valid
        /\ result.value.msg.kind = "not_number"
        /\ result.value.msg.fields =
               <<ClaimedOrder[CHOOSE i \in Offending(arg) :
                                 \A j \in Offending(arg) : i <= j]>>

\* V2 and V28 are no numbers: V2 was named
C21_Witness ==
    /\ op = "validate_transaction_data"
    /\ MissingOf(arg) = {}
    /\ Offending(arg) = {2, 28}
    /\ result.value.msg.fields = <<"V2">>

\* C22: prepare_features on a record that validate_transaction_data does
\* not accept raises a validation error carrying the verdict's message,
\* returns nothing and hands nothing to the scaler, whether a scaler is
\* loaded or not.
C22_DoubleCheck ==
    (op = "prepare_features" /\ ~Accepted(arg)) =>
        /\ result.raised # None
        /\ result.raised[1].prefix = "validation"
        /\ result.raised[1].kind = validate_transaction_data(arg).value.msg.kind
        /\ result.value = None
        /\ transform_log = <<>>

\* a negative amount was refused by a preprocessor that has a scaler
C22_Witness ==
    /\ op = "prepare_features"
    /\ preprocessor[1].scaler # None
    /\ MissingOf(arg) = {}
    /\ arg["Amount"] = Num(-1)
    /\ result.raised # None
    /\ result.raised[1].kind = "negative_amount"
    /\ transform_log = <<>>

\* C23: a preprocessor without a scaler raises on every record and hands
\* nothing on; and a model directory without the scaler file yields no
\* FraudDetectionModel at all, so a caller's prediction raises before the
\* classifier is asked and no result with a fraud_score comes back.
C23_NoScalerNoPrediction ==
    /\ (op = "prepare_features" /\ preprocessor[1].scaler = None) =>
          /\ result.raised # None
          /\ result.value = None
          /\ NothingScored
    /\ (op = "FraudDetectionModel" /\ arg.disk.scaler = None) =>
          /\ result.raised # None
          /\ result.value = None
          /\ NothingScored

\* a valid record was refused for lack of a scaler
C23_Witness ==
    /\ op = "prepare_features"
    /\ preprocessor[1].scaler = None
    /\ arg = BaseRecord
    /\ result.raised # None
    /\ result.raised[1].kind = "scaler_not_loaded"

\* C24 (as claimed): a model-info query scores nothing, and its answer
\* carries the model name, the AUC and whether the artifacts are loaded,
\* whether the model is loaded or not and whether there are metrics or not.
C24_InfoAlwaysComplete ==
    (op = "/model-info") =>
        /\ NothingScored
        /\ "model_name" \in DOMAIN result.value
        /\ "model_auc" \in DOMAIN result.value
        /\ "model_loaded" \in DOMAIN result.value

\* the boundaries of the risk bands
Boundaries == {Tenth, 3 * Tenth, 7 * Tenth, 9 * Tenth}

\* the fraud_score a successful result reports
Reported == result.value.fraud_score[1]

\* C25 (as claimed): in a successful result is_fraud is true exactly when
\* the reported fraud_score is >= the threshold, and risk_level is the band
\* of the reported fraud_score.
C25_ReportedConsistent ==
    Success =>
        /\ result.value.is_fraud = Some(Reported >= threshold[1].n)
        /\ result.value.risk_level = RiskLevels[TierOf(Reported)]

\* C25 (amended): is_fraud and risk_level are taken from the unrounded
\* probability and the reported fraud_score is that probability rounded to
\* the nearest 4-decimal value; so is_fraud differs from `reported score >=
\* threshold` only when the probability is within 0.00005 of the
\* threshold, and risk_level differs from the band of the reported score
\* only when the probability is less than 0.00005 below a band boundary.
C25_ConsistentUpToRounding ==
    Success =>
        LET p == proba_log[1]
            t == threshold[1].n
        IN  /\ Reported % 10 = 0
            /\ Reported - p \in -5..5
            /\ result.value.is_fraud = Some(p >= t)
            /\ result.value.risk_level = RiskLevels[TierOf(p)]
            /\ result.value.is_fraud # Some(Reported >= t) => (p - t) \in -5..5
            /\ result.value.risk_level # RiskLevels[TierOf(Reported)] =>
                  \E b \in Boundaries : p < b /\ b - p <= 5

\* 0.09999 with threshold 0.1: reported as 0.1, not fraud, tier very low
C25_Witness ==
    /\ Success
    /\ proba_log = <<Tenth - 1>>
    /\ threshold = Some(Fin(Tenth))
    /\ Reported = Tenth
    /\ result.value.is_fraud = Some(FALSE)
    /\ result.value.risk_level = "very_low"

-----------------------------------------------------------------------------
(* get_model of app/inference.py, called from several threads.  A thread    *)
(* may be suspended between any two of: the test of the global, the         *)
(* construction (which reads files), the store into the global and the      *)
(* read of the global for the return.                                       *)

\* the directories callers pass: two that hold a model, one that holds none
ModelDirs == {"../model", "model_v2", "missing"}

\* what a directory holds
DirDisk(model_dir) ==
    IF model_dir = "../model"
    THEN [model |-> Some([bias |-> Scale \div 2 + 10, nan_ok |-> TRUE]),
          scaler |-> Some(ScalerArtifact), metrics |-> Some(FullMetrics)]
    ELSE IF model_dir = "model_v2"
    THEN [model |-> Some([bias |-> Scale \div 2 + 10, nan_ok |-> FALSE]),
          scaler |-> Some(ScalerArtifact), metrics |-> None]
    ELSE NoDisk

\* the object FraudDetectionModel(model_dir) yields when thread t constructs
\* it: objects made by different calls are different objects
Instance(t, model_dir) ==
    [by |-> t, model_dir |-> model_dir, state |-> load_model(DirDisk(model_dir)).value]

\* thread t calls get_model(model_dir)
GetModelEnter(t) ==
    /\ callers[t].pc = "idle"
    /\ \E d \in ModelDirs :
          callers' = [callers EXCEPT ![t] = [pc |-> "test", model_dir |-> d, made |-> None]]
    /\ UNCHANGED <<global_model, created, returned>>
    /\ UNCHANGED <<service, call, chatbot>>

\* if _global_model is None:
GetModelTest(t) ==
    /\ callers[t].pc = "test"
    /\ callers' = [callers EXCEPT ![t].pc =
                      IF global_model = None THEN "construct" ELSE "return"]
    /\ UNCHANGED <<global_model, created, returned>>
    /\ UNCHANGED <<service, call, chatbot>>

\* FraudDetectionModel(model_dir): load_model raises and the call ends with
\* the exception, or the instance exists
GetModelConstruct(t) ==
    /\ callers[t].pc = "construct"
    /\ IF Raised(load_model(DirDisk(callers[t].model_dir)))
       THEN /\ callers' = [callers EXCEPT ![t].pc = "idle"]
            /\ UNCHANGED created
       ELSE /\ callers' = [callers EXCEPT
                              ![t].pc = "publish",
                              ![t].made = Some(Instance(t, callers[t].model_dir))]
            /\ created' = created \cup {Instance(t, callers[t].model_dir)}
    /\ UNCHANGED <<global_model, returned>>
    /\ UNCHANGED <<service, call, chatbot>>

\* _global_model = <the new instance>
GetModelPublish(t) ==
    /\ callers[t].pc = "publish"
    /\ global_model' = callers[t].made
    /\ callers' = [callers EXCEPT ![t].pc = "return"]
    /\ UNCHANGED <<created, returned>>
    /\ UNCHANGED <<service, call, chatbot>>

\* return _global_model
GetModelReturn(t) ==
    /\ callers[t].pc = "return"
    /\ returned' = returned \cup {global_model[1]}
    /\ callers' = [callers EXCEPT ![t].pc = "idle"]
    /\ UNCHANGED <<global_model, created>>
    /\ UNCHANGED <<service, call, chatbot>>

InitAccessor ==
    /\ launcher = "library"
    /\ phase = "library"
    /\ disk = NoDisk
    /\ fraud_model = "None"
    /\ model = None
    /\ scaler = None
    /\ metrics = None
    /\ preprocessor = None
    /\ Idle
    /\ AccessorUnused
    /\ ChatbotUnused

NextAccessor ==
    \E t \in Threads :
        \/ GetModelEnter(t)
        \/ GetModelTest(t)
        \/ GetModelConstruct(t)
        \/ GetModelPublish(t)
        \/ GetModelReturn(t)

SpecAccessor == InitAccessor /\ [][NextAccessor]_vars

\* an instance whose load_model ran to its end
FullyLoaded(i) == i.state.model # None /\ i.state.scaler # None /\ i.state.preprocessor # None

\* C26: across any interleaving of get_model calls at most one instance is
\* ever created and published, every call that returns gives the same
\* instance, and the global is unset or holds a fully loaded instance.
C26_Singleton ==
    /\ Cardinality(created) <= 1
    /\ Cardinality(returned) <= 1
    /\ global_model # None => global_model[1] \in created /\ FullyLoaded(global_model[1])
    /\ \A i \in returned : FullyLoaded(i)

\* what is published or returned was loaded completely, and a failed load
\* publishes nothing
PublishedFullyLoaded ==
    /\ global_model # None => global_model[1] \in created /\ FullyLoaded(global_model[1])
    /\ \A i \in returned : i \in created /\ FullyLoaded(i)
    /\ created = {} => global_model = None

-----------------------------------------------------------------------------
(* The chatbot of app/chatbot.py.  A message text is a sequence of words,  *)
(* a message content a sequence of strings.  Times are seconds.            *)

\* ConversationContext.add_message keeps this many messages
HistoryCap == 20

\* the languages the knowledge base has
Supported == {"ru", "en", "kk"}

\* self.knowledge_base (the greeting of each language)
knowledge_base == [l \in Supported |-> [greeting |-> <<"greeting", l>>]]

\* ConversationContext(session_id, language), made at time t
ConversationContext(session_id, language, t) ==
    [session_id |-> session_id, language |-> language, history |-> <<>>,
     current_transaction |-> None, mode |-> "general", created_at |-> t]

\* the history is cut to its first 20 messages
add_message_keep_first(context, role, content, t) ==
    LET h == Append(context.history,
                    [role |-> role, content |-> content, timestamp |-> t])
    IN  [context EXCEPT !.history =
            IF Len(h) > HistoryCap THEN SubSeq(h, 1, HistoryCap) ELSE h]

\* context.add_message(role, content) at time t
add_message(context, role, content, t) ==
    LET h == Append(context.history,
                    [role |-> role, content |-> content, timestamp |-> t])
    IN  [context EXCEPT !.history =
            IF Len(h) > HistoryCap
            THEN SubSeq(h, Len(h) - HistoryCap + 1, Len(h)) ELSE h]

\* context.set_transaction_context(transaction, result) at time t
set_transaction_context(context, transaction, res, t) ==
    [context EXCEPT
        !.current_transaction =
            Some([data |-> transaction, result |-> res, timestamp |-> t]),
        !.mode = "transaction"]

\* the sessions map with session_id bound to context
Put(ss, session_id, context) ==
    [k \in DOMAIN ss \cup {session_id} |-> IF k = session_id THEN context ELSE ss[k]]

\* what a chatbot method leaves: the sessions map, what it raised or
\* returned, and the prompts it handed to the LLM
Left(ss, raised, value, handed) ==
    [sessions |-> ss, raised |-> raised, value |-> value, handed |-> handed]

\* FraudChatbot.create_session: the context is registered, then the greeting
\* is looked up in the knowledge base (KeyError for a language it lacks)
create_session(ss, session_id, language, t) ==
    LET context == ConversationContext(session_id, language, t)
    IN  IF language \notin DOMAIN knowledge_base
        THEN Left(Put(ss, session_id, context), Some("KeyError"), None, <<>>)
        ELSE Left(Put(ss, session_id,
                      add_message(context, "assistant",
                                  knowledge_base[language].greeting, t)),
                  None, Some(session_id), <<>>)

\* str.lower() of the words the texts use
Lower(w) ==
    IF w = "My" THEN "my" ELSE IF w = "Payment" THEN "payment" ELSE w

\* any(keyword in message_lower for keyword in keywords); the keywords that
\* are Russian words are left out: no text of the model has them
HasKeyword(message, keywords) ==
    \E i \in 1..Len(message) : Lower(message[i]) \in keywords

transaction_keywords == {"transaction", "payment", "transfer"}
security_keywords == {"security", "fraud", "scam"}
help_keywords == {"help", "how", "what can"}

\* FraudChatbot._detect_intent: the mode the message text selects
detect_intent(context, message) ==
    [context EXCEPT !.mode =
        IF HasKeyword(message, transaction_keywords) THEN "transaction"
        ELSE IF HasKeyword(message, security_keywords) THEN "security"
        ELSE IF HasKeyword(message, help_keywords) THEN "help"
        ELSE "general"]

\* f"{x:.2f}" of a score
Round2(x) == ((x + 500) \div 1000) * 1000

\* FraudChatbot._build_system_prompt: language, mode, the context summary
\* (which names the score of the current transaction to 2 decimals) and,
\* in transaction mode, the block of the current transaction
build_system_prompt(context) ==
    [language |-> context.language,
     mode |-> context.mode,
     summary_score |->
        IF context.current_transaction = None THEN None
        ELSE Some(Round2(Get(context.current_transaction[1].result, "fraud_score", 0))),
     transaction |->
        IF context.mode = "transaction" /\ context.current_transaction # None
        THEN LET cur == context.current_transaction[1]
             IN  Some([fraud_score |-> Get(cur.result, "fraud_score", 0),
                       is_fraud |-> Get(cur.result, "is_fraud", FALSE),
                       risk_level |-> Get(cur.result, "risk_level", "unknown"),
                       amount |-> Get(cur.data, "Amount", 0)])
        ELSE None,
     security_tips |-> context.mode = "security"]

unavailable_msg == <<"chatbot unavailable">>
error_msg == <<"an error occurred, rephrase the question">>
no_response_msg == <<"no response generated">>

\* what generate_content does with a prompt
LLMOutcomes == {"text", "empty", "raise"}

\* FraudChatbot.process_message(session_id, message, transaction_context)
\* at time t; llm says what generate_content does
process_message(available, ss, session_id, message, tc, t, llm) ==
    IF ~available THEN Left(ss, None, Some(unavailable_msg), <<>>)
    ELSE
    LET \* context = self.get_session(...) or self.create_session(session_id)
        ss1 == IF session_id \in DOMAIN ss THEN ss
               ELSE create_session(ss, session_id, "ru", t).sessions
        c1 == add_message(ss1[session_id], "user", message, t)
        \* if transaction_context: context.set_transaction_context(...)
        c2 == IF Truthy(tc)
              THEN set_transaction_context(c1, Get(tc[1], "transaction", <<>>),
                                           Get(tc[1], "result", <<>>), t)
              ELSE c1
        c3 == detect_intent(c2, message)
        \* _build_system_prompt raises KeyError on knowledge_base[lang];
        \* generate_content may raise: both end in the except clause
        failed == c3.language \notin DOMAIN knowledge_base \/ llm = "raise"
        response == IF failed THEN error_msg
                    ELSE IF llm = "empty" THEN no_response_msg
                    ELSE <<"response">>
    IN  Left(Put(ss1, session_id, add_message(c3, "assistant", response, t)),
             None, Some(response),
             IF c3.language \notin DOMAIN knowledge_base THEN <<>>
             ELSE <<build_system_prompt(c3)>>)

\* FraudChatbot.get_suggested_questions: those of the session's language,
\* the Russian ones for a language without any
get_suggested_questions(ss, session_id) ==
    IF session_id \notin DOMAIN ss THEN <<>>
    ELSE <<"suggestions",
           IF ss[session_id].language \in Supported
           THEN ss[session_id].language ELSE "ru">>

\* chat_with_bot(session_id, message, language, transaction_context)
chat_with_bot(available, ss, session_id, message, language, tc, t, llm) ==
    LET talk(ss1) ==
            LET reply(r) ==
                    Left(r.sessions, None,
                         Some([response |-> r.value[1],
                               suggestions |-> get_suggested_questions(r.sessions, session_id),
                               session_id |-> session_id,
                               error |-> None]),
                         r.handed)
            IN  reply(process_message(available, ss1, session_id, message, tc, t, llm))
        opened(c) ==
            IF c.raised # None
            THEN Left(c.sessions, None,
                      Some([response |-> <<"an error occurred, try later">>,
                            suggestions |-> <<>>,
                            session_id |-> session_id,
                            error |-> c.raised]),
                      <<>>)
            ELSE talk(c.sessions)
    IN  IF session_id \in DOMAIN ss THEN talk(ss)
        ELSE opened(create_session(ss, session_id, language, t))

\* FraudChatbot.clear_session
clear_session(ss, session_id) ==
    IF session_id \in DOMAIN ss
    THEN IF DOMAIN ss = {session_id} THEN <<>>
         ELSE [k \in DOMAIN ss \ {session_id} |-> ss[k]]
    ELSE ss

SecondsPerDay == 86400
ActiveWindow == 3600

\* timedelta.seconds of a non-negative age: the seconds within the last
\* day, the days are a separate field
seconds(age) == age % SecondsPerDay

\* FraudChatbot.get_session_stats at time t
get_session_stats(ss, t) ==
    [total_sessions |-> Cardinality(DOMAIN ss),
     active_sessions |->
        Cardinality({k \in DOMAIN ss : seconds(t - ss[k].created_at) < ActiveWindow}),
     languages |-> {ss[k].language : k \in DOMAIN ss},
     modes |-> {ss[k].mode : k \in DOMAIN ss}]


\* the call variables after chatbot operation name ran on argument a and
\* left l
ChatCalled(name, a, l) ==
    /\ op' = name
    /\ arg' = a
    /\ data' = None
    /\ threshold' = None
    /\ result' = [raised |-> l.raised, value |-> l.value]
    /\ status' = 0
    /\ transform_log' = <<>>
    /\ proba_log' = <<>>
    /\ prompts' = l.handed
    /\ sessions' = l.sessions

SessionIds == {"s1", "s2"}
LanguageInputs == Supported \cup {"de"}

\* message texts: one without keyword, one of each kind of keyword
Texts == {<<"hello">>, <<"My", "Payment">>, <<"is", "it", "a", "scam">>, <<"help">>}

\* a transaction with the result of its prediction
FullContext ==
    [transaction |-> [Amount |-> 250],
     result |-> [fraud_score |-> 95 * (Scale \div 100), is_fraud |-> TRUE,
                 risk_level |-> "very_high"]]

\* the transaction_context arguments: none, an empty dict, a full one
ContextInputs == {None, Some(<<>>), Some(FullContext)}

\* a conversation of the model goes on while the history is shorter than this
MaxChatHistory == 2

CanTalk(session_id) ==
    session_id \in DOMAIN sessions => Len(sessions[session_id].history) < MaxChatHistory

\* fraud_chatbot.create_session(session_id, language)
CreateSessionCall ==
    /\ op = "idle"
    /\ \E sid \in SessionIds, lang \in LanguageInputs :
          ChatCalled("create_session", [session_id |-> sid, language |-> lang],
                     create_session(sessions, sid, lang, now))
    /\ UNCHANGED <<bot_model, now, added>>
    /\ UNCHANGED <<service, accessor>>

\* fraud_chatbot.process_message(session_id, message, transaction_context)
ProcessMessageCall ==
    /\ op = "idle"
    /\ \E sid \in SessionIds, text \in Texts, tc \in ContextInputs, llm \in LLMOutcomes :
          /\ CanTalk(sid)
          /\ ChatCalled("process_message",
                        [session_id |-> sid, message |-> text, transaction_context |-> tc],
                        process_message(bot_model, sessions, sid, text, tc, now, llm))
    /\ UNCHANGED <<bot_model, now, added>>
    /\ UNCHANGED <<service, accessor>>

\* chat_with_bot(session_id, message, language, transaction_context)
ChatWithBotCall ==
    /\ op = "idle"
    /\ \E sid \in SessionIds, text \in Texts, lang \in LanguageInputs,
          tc \in ContextInputs, llm \in LLMOutcomes :
          /\ CanTalk(sid)
          /\ ChatCalled("chat_with_bot",
                        [session_id |-> sid, message |-> text, language |-> lang,
                         transaction_context |-> tc],
                        chat_with_bot(bot_model, sessions, sid, text, lang, tc, now, llm))
    /\ UNCHANGED <<bot_model, now, added>>
    /\ UNCHANGED <<service, accessor>>

\* clear_chatbot_session(session_id)
ClearSessionCall ==
    /\ op = "idle"
    /\ \E sid \in SessionIds :
          ChatCalled("clear_session", [session_id |-> sid],
                     Left(clear_session(sessions, sid), None, None, <<>>))
    /\ UNCHANGED <<bot_model, now, added>>
    /\ UNCHANGED <<service, accessor>>

\* get_chatbot_stats()
GetSessionStatsCall ==
    /\ op = "idle"
    /\ ChatCalled("get_session_stats", None,
                  Left(sessions, None, Some(get_session_stats(sessions, now)), <<>>))
    /\ UNCHANGED <<bot_model, now, added>>
    /\ UNCHANGED <<service, accessor>>

\* the times of the model: the start, half an hour and an hour later,
\* a day and half an hour later, a day and two hours later
Instants == {0, 1800, 3600, SecondsPerDay + 1800, SecondsPerDay + 7200}

\* time passes
AdvanceClock ==
    /\ op = "idle"
    /\ \E t \in Instants : t > now /\ now' = t
    /\ UNCHANGED <<bot_model, sessions, added>>
    /\ UNCHANGED <<service, accessor, call>>

\* the module after import: fraud_chatbot = FraudChatbot(), with or without
\* a Gemini model
InitChat ==
    /\ launcher = "library"
    /\ phase = "library"
    /\ disk = NoDisk
    /\ fraud_model = "None"
    /\ model = None
    /\ scaler = None
    /\ metrics = None
    /\ preprocessor = None
    /\ Idle
    /\ AccessorUnused
    /\ bot_model \in BOOLEAN
    /\ sessions = <<>>
    /\ now = 0
    /\ added = <<>>

NextChat ==
    \/ CreateSessionCall
    \/ ProcessMessageCall
    \/ ChatWithBotCall
    \/ ClearSessionCall
    \/ Finish

SpecChat == InitChat /\ [][NextChat]_vars

NextStats ==
    \/ CreateSessionCall
    \/ ClearSessionCall
    \/ GetSessionStatsCall
    \/ AdvanceClock
    \/ Finish

SpecStats == InitChat /\ [][NextStats]_vars


-----------------------------------------------------------------------------
(* One ConversationContext and the calls of its methods.                    *)

\* add_message is called at most this many times
MaxAdds == 22

\* the text of the k-th message: k words, so no two messages are alike
Words(k) == [i \in 1..k |-> "word"]

\* context.add_message(role, content): the caller and the assistant take
\* turns
AddMessageCall ==
    /\ Len(added) < MaxAdds
    /\ LET k == Len(added) + 1
           role == IF k % 2 = 1 THEN "user" ELSE "assistant"
       IN  /\ sessions' = [sessions EXCEPT !["s1"] = add_message(@, role, Words(k), now)]
           /\ added' = Append(added, [role |-> role, content |-> Words(k), timestamp |-> now])
    /\ UNCHANGED <<bot_model, now>>
    /\ UNCHANGED <<service, accessor, call>>

\* context.set_transaction_context(transaction, result)
SetTransactionContextCall ==
    /\ \E amount \in {0, 250} :
          sessions' = [sessions EXCEPT !["s1"] =
                          set_transaction_context(@, [Amount |-> amount],
                                                  FullContext.result, now)]
    /\ UNCHANGED <<bot_model, now, added>>
    /\ UNCHANGED <<service, accessor, call>>

\* context = ConversationContext("s1", language)
InitContext ==
    /\ launcher = "library"
    /\ phase = "library"
    /\ disk = NoDisk
    /\ fraud_model = "None"
    /\ model = None
    /\ scaler = None
    /\ metrics = None
    /\ preprocessor = None
    /\ Idle
    /\ AccessorUnused
    /\ bot_model = FALSE
    /\ \E language \in LanguageInputs :
          sessions = [k \in {"s1"} |-> ConversationContext("s1", language, 0)]
    /\ now = 0
    /\ added = <<>>

NextContext == AddMessageCall \/ SetTransactionContextCall

SpecContext == InitContext /\ [][NextContext]_vars

\* the last n elements of a sequence (all of it when it has fewer)
LastOf(seq, n) ==
    SubSeq(seq, IF Len(seq) > n THEN Len(seq) - n + 1 ELSE 1, Len(seq))

\* C27: after any sequence of add_message calls the history holds at most
\* 20 messages, and they are the most recently added ones in the order in
\* which they were added.
C27_LastTwenty ==
    \A k \in DOMAIN sessions :
        /\ Len(sessions[k].history) <= HistoryCap
        /\ sessions[k].history = LastOf(added, HistoryCap)

\* more than 20 messages were added: the oldest are gone
C27_Witness ==
    /\ Len(added) = HistoryCap + 2
    /\ Len(sessions["s1"].history) = HistoryCap
    /\ sessions["s1"].history[1] = added[3]
    /\ sessions["s1"].history[HistoryCap] = added[HistoryCap + 2]


-----------------------------------------------------------------------------
(* Claims about the chatbot's sessions, checked under SpecChat and          *)
(* SpecStats.                                                               *)

\* a session as create_session leaves it when it succeeds: a language of
\* the knowledge base and its greeting as the first message
WellFormed(context) ==
    /\ context.language \in Supported
    /\ context.history # <<>>
    /\ context.history[1].role = "assistant"
    /\ context.history[1].content = knowledge_base[context.language].greeting

\* C28: creating a session is all-or-nothing: when create_session fails,
\* directly or through chat_with_bot, no session is registered under that
\* session_id, and every registered session has a supported language and a
\* greeting as its first message.
C28_AllOrNothing ==
    /\ \A k \in DOMAIN sessions : WellFormed(sessions[k])
    /\ (op = "create_session" /\ result.raised # None) =>
          arg.session_id \notin DOMAIN sessions
    /\ (op = "chat_with_bot" /\ result.value[1].error # None) =>
          arg.session_id \notin DOMAIN sessions

\* the block of the supplied transaction as the prompt shows it
SuppliedBlock(tc) ==
    [fraud_score |-> Get(Get(tc, "result", <<>>), "fraud_score", 0),
     is_fraud |-> Get(Get(tc, "result", <<>>), "is_fraud", FALSE),
     risk_level |-> Get(Get(tc, "result", <<>>), "risk_level", "unknown"),
     amount |-> Get(Get(tc, "transaction", <<>>), "Amount", 0)]

\* C29: whenever process_message is called with a transaction context and
\* the LLM is available, the prompt is built in transaction mode and holds
\* the score, decision, tier and amount of the supplied transaction,
\* whatever the message text.
C29_TransactionInPrompt ==
    (/\ op = "process_message"
     /\ bot_model
     /\ Truthy(arg.transaction_context)) =>
        /\ Len(prompts) = 1
        /\ prompts[1].mode = "transaction"
        /\ prompts[1].transaction = Some(SuppliedBlock(arg.transaction_context[1]))

\* C30: get_session_stats reports as active_sessions the number of
\* registered sessions created less than one hour ago, whatever their age,
\* and as total_sessions the number of registered sessions.
C30_ActiveWithinHour ==
    op = "get_session_stats" =>
        /\ result.value[1].active_sessions =
              Cardinality({k \in DOMAIN sessions : now - sessions[k].created_at < ActiveWindow})
        /\ result.value[1].total_sessions = Cardinality(DOMAIN sessions)

\* total_sessions is the number of registered sessions
TotalIsRegistered ==
    op = "get_session_stats" =>
        result.value[1].total_sessions = Cardinality(DOMAIN sessions)

=============================================================================
